---- MODULE Spec2Model ----
(***************************************************************************)
(* ScannerIndexer: page catalog, index profiles, export job building and   *)
(* the two background tasks (PDFLoader, PDFExporter) with the controller   *)
(* (PDFExtractorApp) that starts, cancels and cleans them up.              *)
(*                                                                         *)
(* Strings are sequences of atoms (TLA+ strings): "/in/a.pdf" is           *)
(* <<"/", "in", "/", "a", ".pdf">>.  Python's None and "" are both falsy   *)
(* wherever the code tests a folder, so an unset folder is <<>>.           *)
(***************************************************************************)
EXTENDS Integers, Sequences, FiniteSets, TLC

VARIABLES
    page_items,          \* PageListWidget.page_items (page_data + checkbox + isHidden)
    files,               \* filesystem: path -> content of the file at that path
    dirs,                \* filesystem: set of directories that exist
    profiles,            \* ProfileManager.profiles
    current_profile,     \* IndexPanel.current_profile (index into profiles, 0 = None)
    output_folder,       \* PDFExtractorApp.output_folder
    export_btn_enabled,  \* PDFExtractorApp.export_btn.isEnabled()
    loader,              \* PDFExtractorApp.loader   (task id, 0 = None)
    exporter,            \* PDFExtractorApp.exporter (task id, 0 = None)
    tasks,               \* every QThread object created so far, by id
    msgs,                \* queued signals from worker threads to the UI thread
    ui_pc,               \* position of the UI thread inside a blocking handler
    last_call            \* observation of the last handler call (arguments, result)

vars == <<page_items, files, dirs, profiles, current_profile, output_folder,
          export_btn_enabled, loader, exporter, tasks, msgs, ui_pc, last_call>>

None == "<None>"

(***************************************************************************)
(* Bounds                                                                  *)
(***************************************************************************)
PagesInA == 2      \* pages of the source /in/a.pdf
MaxStarts == 2     \* tasks started in a behaviour

(***************************************************************************)
(* Strings and paths                                                       *)
(***************************************************************************)
Range(s) == {s[i] : i \in DOMAIN s}

\* str.lower(), atom by atom
Lower(a) ==
    CASE a = "Vendor" -> "vendor"
      [] a = "Year" -> "year"
      [] a = "Acme" -> "acme"
      [] a = "Folder" -> "folder"
      [] a = "File" -> "file"
      [] a = "Name" -> "name"
      [] a = "Document" -> "document"
      [] a = "Type" -> "type"
      [] a = "Invoice" -> "invoice"
      [] a = "Number" -> "number"
      [] a = "Month" -> "month"
      [] a = "Contract" -> "contract"
      [] a = "Client" -> "client"
      [] OTHER -> a

lower(s) == [i \in DOMAIN s |-> Lower(s[i])]

\* str.replace(" ", "_")
replace_space(s) == [i \in DOMAIN s |-> IF s[i] = " " THEN "_" ELSE s[i]]

\* str.strip()
RECURSIVE lstrip(_)
lstrip(s) == IF s # <<>> /\ Head(s) = " " THEN lstrip(Tail(s)) ELSE s

RECURSIVE rstrip(_)
rstrip(s) == IF s # <<>> /\ s[Len(s)] = " " THEN rstrip(SubSeq(s, 1, Len(s) - 1)) ELSE s

strip(s) == rstrip(lstrip(s))

\* Python's "t in s" for strings
In(t, s) == \E i \in 0..(Len(s) - Len(t)) : SubSeq(s, i + 1, i + Len(t)) = t

\* index of the last "/" of a path, 0 when there is none
LastSep(p) == IF \E i \in DOMAIN p : p[i] = "/"
              THEN CHOOSE i \in DOMAIN p : p[i] = "/" /\ \A j \in DOMAIN p : p[j] = "/" => j <= i
              ELSE 0

\* pathlib: Path(p).name and Path(p).parent
PathName(p) == SubSeq(p, LastSep(p) + 1, Len(p))

PathParent(p) == IF LastSep(p) <= 1 THEN SubSeq(p, 1, LastSep(p)) ELSE SubSeq(p, 1, LastSep(p) - 1)

\* PDFPageData.source_filename
source_filename(page) == PathName(page.source_path)

(***************************************************************************)
(* Index profiles                                                          *)
(***************************************************************************)
\* a variant of validate that takes a value of spaces for a value
IndexField_validate_without_strip(field) == ~(field.required /\ field.value = <<>>)

\* IndexField.validate
IndexField_validate(field) == ~(field.required /\ strip(field.value) = <<>>)

\* IndexProfile.validate_all_fields: the list of fields that fail
validate_all_fields(profile) ==
    SelectSeq(profile.fields, LAMBDA f : ~IndexField_validate(f))

\* the errors of validate_all_fields, "<name> is required" each, as the
\* warning box of apply_to_selected and batch_assign lists them
ErrorMessages(profile) ==
    [k \in DOMAIN validate_all_fields(profile) |->
        validate_all_fields(profile)[k].name \o <<" ", "is", " ", "required">>]

\* dict.get(key, default)
Get(d, key, default) == IF key \in DOMAIN d THEN d[key] ELSE default

\* the default of IndexProfile.output_pattern
DefaultPattern == <<"{", "folder", "_", "name", "}", "/", "{", "file", "_", "name", "}">>

\* a variant of to_dict that leaves the options of the fields out
to_dict_without_options(p) ==
    [name |-> p.name,
     description |-> p.description,
     output_pattern |-> p.output_pattern,
     input_folder |-> p.input_folder,
     output_folder |-> p.output_folder,
     fields |-> [i \in DOMAIN p.fields |->
                   [name |-> p.fields[i].name,
                    value |-> p.fields[i].value,
                    placeholder |-> p.fields[i].placeholder,
                    required |-> p.fields[i].required,
                    field_type |-> p.fields[i].field_type]]]

\* IndexProfile.to_dict: the dictionary json.dump writes
to_dict(p) ==
    [name |-> p.name,
     description |-> p.description,
     output_pattern |-> p.output_pattern,
     input_folder |-> p.input_folder,
     output_folder |-> p.output_folder,
     fields |-> [i \in DOMAIN p.fields |->
                   [name |-> p.fields[i].name,
                    value |-> p.fields[i].value,
                    placeholder |-> p.fields[i].placeholder,
                    required |-> p.fields[i].required,
                    field_type |-> p.fields[i].field_type,
                    options |-> p.fields[i].options]]]

\* IndexProfile.from_dict on a dictionary that has 'name' and whose fields
\* have 'name' (data['name'] and f['name'] raise KeyError otherwise)
from_dict(data) ==
    LET field(f) == [name |-> f.name,
                     value |-> Get(f, "value", <<>>),
                     placeholder |-> Get(f, "placeholder", ""),
                     required |-> Get(f, "required", FALSE),
                     field_type |-> Get(f, "field_type", "text"),
                     options |-> Get(f, "options", <<>>)]
        fields == Get(data, "fields", <<>>)
    IN [name |-> data.name,
        description |-> Get(data, "description", ""),
        fields |-> [i \in DOMAIN fields |-> field(fields[i])],
        output_pattern |-> Get(data, "output_pattern", DefaultPattern),
        input_folder |-> Get(data, "input_folder", <<>>),
        output_folder |-> Get(data, "output_folder", <<>>)]

\* ProfileManager.profiles_file, relative to the working directory
ProfilesFile == <<"profiles", ".json">>

\* a file that is no PDF and whose text is the JSON document data (json) or
\* is no JSON document at all
JsonFile(json, data) == [pdf |-> FALSE, pages |-> <<>>, json |-> json, data |-> data]

\* ProfileManager.save_profiles on a writable file: the files after
\* json.dump([p.to_dict() for p in profiles])
save_profiles(fs, store) ==
    [f \in DOMAIN fs \cup {ProfilesFile} |->
        IF f = ProfilesFile THEN JsonFile(TRUE, [i \in DOMAIN store |-> to_dict(store[i])])
        ELSE fs[f]]

\* a variant of get_profile that falls back on the first profile of the store
get_profile_or_first(store, name) ==
    IF \E i \in DOMAIN store : store[i].name = name
    THEN CHOOSE i \in DOMAIN store : store[i].name = name /\ \A j \in 1..(i - 1) : store[j].name # name
    ELSE IF store = <<>> THEN 0 ELSE 1

\* ProfileManager.get_profile: first profile of that name, 0 when there is none
get_profile(store, name) ==
    IF \E i \in DOMAIN store : store[i].name = name
    THEN CHOOSE i \in DOMAIN store : store[i].name = name /\ \A j \in 1..(i - 1) : store[j].name # name
    ELSE 0

\* truthiness of PDFPageData.assigned_profile
Truthy(name) == name # None /\ name # ""

\* the segments of a path: the runs of atoms between "/" atoms
RECURSIVE Segments(_, _)
Segments(p, cur) ==
    IF p = <<>> THEN <<cur>>
    ELSE IF Head(p) = "/" THEN <<cur>> \o Segments(Tail(p), <<>>)
    ELSE Segments(Tail(p), Append(cur, Head(p)))

RECURSIVE JoinSegments(_)
JoinSegments(segs) ==
    IF segs = <<>> THEN <<>>
    ELSE IF Len(segs) = 1 THEN segs[1]
    ELSE segs[1] \o <<"/">> \o JoinSegments(Tail(segs))

\* str(PurePosixPath(p)): repeated and trailing separators and "." segments
\* are dropped, ".." segments are kept; a root of exactly two separators stays
PathStr(p) ==
    LET kept == SelectSeq(Segments(p, <<>>), LAMBDA seg : seg # <<>> /\ seg # <<".">>)
        root == IF p = <<>> \/ Head(p) # "/" THEN <<>>
                ELSE IF Len(p) >= 2 /\ p[2] = "/" /\ ~(Len(p) >= 3 /\ p[3] = "/")
                     THEN <<"/", "/">>
                ELSE <<"/">>
    IN IF root # <<>> THEN root \o JoinSegments(kept)
       ELSE IF kept = <<>> THEN <<".">> ELSE JoinSegments(kept)

\* str(Path(base) / rel): an absolute right operand replaces the left one
PathJoin(base, rel) ==
    IF rel # <<>> /\ Head(rel) = "/" THEN PathStr(rel) ELSE PathStr(base \o <<"/">> \o rel)

\* index of the first "}" of s, 0 when there is none
FirstClose(s) == IF \E i \in DOMAIN s : s[i] = "}"
                 THEN CHOOSE i \in DOMAIN s : s[i] = "}" /\ \A j \in 1..(i - 1) : s[j] # "}"
                 ELSE 0

\* the first token of a non-empty format string: [err, text, rest], where
\* text is what the token stands for and err the exception it raises
FormatToken(p, m) ==
    LET Lit(a, rest) == [err |-> "", text |-> a, rest |-> rest]
        Raise(e) == [err |-> e, text |-> <<>>, rest |-> <<>>]
        key == SubSeq(p, 2, FirstClose(p) - 1)
    IN IF Head(p) = "{"
       THEN IF Len(p) >= 2 /\ p[2] = "{" THEN Lit(<<"{">>, SubSeq(p, 3, Len(p)))
            ELSE IF FirstClose(p) = 0 THEN Raise("ValueError")
            ELSE IF "{" \in Range(key) THEN Raise("ValueError")
            ELSE IF key = <<>> THEN Raise("IndexError")
            ELSE IF key \notin DOMAIN m THEN Raise("KeyError")
            ELSE Lit(m[key], SubSeq(p, FirstClose(p) + 1, Len(p)))
       ELSE IF Head(p) = "}"
            THEN IF Len(p) >= 2 /\ p[2] = "}" THEN Lit(<<"}">>, SubSeq(p, 3, Len(p)))
                 ELSE Raise("ValueError")
       ELSE Lit(<<Head(p)>>, Tail(p))

\* str.format(**m): the text, or the exception the first bad token raises
RECURSIVE Format(_, _)
Format(p, m) ==
    IF p = <<>> THEN [err |-> "", out |-> <<>>]
    ELSE LET token == FormatToken(p, m)
             r == Format(token.rest, m)
         IN IF token.err # "" THEN [err |-> token.err, out |-> <<>>]
            ELSE IF r.err # "" THEN r
            ELSE [err |-> "", out |-> token.text \o r.out]

\* the replacements dict of IndexProfile.generate_output_path: a later field
\* of the same key overwrites an earlier one, the two defaults never overwrite
FieldKey(field) == replace_space(lower(field.name))

FieldValue(field) == IF strip(field.value) = <<>> THEN <<"unknown">> ELSE strip(field.value)

\* a variant of Replacements in which a blank field takes the default of its
\* key when the key has one
Replacements_default_for_blank(profile) ==
    LET keys == {FieldKey(profile.fields[i]) : i \in DOMAIN profile.fields}
        last(k) == CHOOSE i \in DOMAIN profile.fields :
                      /\ FieldKey(profile.fields[i]) = k
                      /\ \A j \in DOMAIN profile.fields : FieldKey(profile.fields[j]) = k => j <= i
        folder_name == <<"folder", "_", "name">>
        file_name == <<"file", "_", "name">>
        default(k) == IF k = folder_name THEN <<"extracted">> ELSE <<"document">>
    IN [k \in keys \cup {folder_name, file_name} |->
          IF k \in keys
          THEN IF k \in {folder_name, file_name}
                  /\ strip(profile.fields[last(k)].value) = <<>>
               THEN default(k) ELSE FieldValue(profile.fields[last(k)])
          ELSE default(k)]

Replacements(profile) ==
    LET keys == {FieldKey(profile.fields[i]) : i \in DOMAIN profile.fields}
        last(k) == CHOOSE i \in DOMAIN profile.fields :
                      /\ FieldKey(profile.fields[i]) = k
                      /\ \A j \in DOMAIN profile.fields : FieldKey(profile.fields[j]) = k => j <= i
        folder_name == <<"folder", "_", "name">>
        file_name == <<"file", "_", "name">>
    IN [k \in keys \cup {folder_name, file_name} |->
          IF k \in keys THEN FieldValue(profile.fields[last(k)])
          ELSE IF k = folder_name THEN <<"extracted">> ELSE <<"document">>]

\* IndexProfile.generate_output_path: [err, out]; err is "" unless format()
\* raised something other than KeyError, which reaches the caller
generate_output_path(profile, base_dir) ==
    LET Formatted(replacements, relative_path) ==
            IF relative_path.err = ""
            THEN [err |-> "", out |-> PathJoin(base_dir, relative_path.out)]
            ELSE IF relative_path.err = "KeyError"
                 THEN [err |-> "",
                       out |-> PathJoin(PathJoin(base_dir,
                                                 replacements[<<"folder", "_", "name">>]),
                                        replacements[<<"file", "_", "name">>])]
            ELSE [err |-> relative_path.err, out |-> <<>>]
        Try(replacements) ==
            Formatted(replacements, Format(profile.output_pattern, replacements))
    IN Try(Replacements(profile))

(***************************************************************************)
(* Page catalog                                                            *)
(***************************************************************************)
\* PDFService.load_pages_from_file: one PDFPageData per page of the document
PDFPageData(path, n) ==
    [source_path |-> path, page_number |-> n, selected |-> FALSE,
     assigned_profile |-> None, hidden |-> FALSE]

\* PDFExtractorApp.update_export_button_state
update_export_button_state(items, store, out_folder) ==
    LET has_assigned_pages == \E i \in DOMAIN items : Truthy(items[i].assigned_profile)
        has_valid_outputs ==
            \/ out_folder # <<>>
            \/ \E i \in DOMAIN items :
                  /\ Truthy(items[i].assigned_profile)
                  /\ get_profile(store, items[i].assigned_profile) # 0
                  /\ store[get_profile(store, items[i].assigned_profile)].output_folder # <<>>
    IN has_assigned_pages /\ has_valid_outputs

\* PageListItem.set_selected: checkbox.setChecked; the toggled signal copies
\* the new state into page_data.selected (on_selection_changed)
set_selected(item, selected) == [item EXCEPT !.selected = selected]

\* PageListItem.is_selected
is_selected(item) == item.selected

\* PageListWidget.get_selected_pages (as indices into page_items)
get_selected_pages(items) == {i \in DOMAIN items : is_selected(items[i])}

\* the toggled signal fires only for an item whose check state changed; it
\* reaches PDFExtractorApp.on_page_selection_changed
SelectionSignal(old, new) ==
    IF \E i \in DOMAIN old : old[i].selected # new[i].selected
    THEN update_export_button_state(new, profiles, output_folder)
    ELSE export_btn_enabled

\* PageListItem.set_assigned_state(True): the check box is disabled and unchecked
set_assigned_state(item) == [item EXCEPT !.selected = FALSE]

\* a variant of assign_profile that leaves the check box as it was
assign_profile_keeps_selected(item, profile_name) ==
    [item EXCEPT !.assigned_profile = profile_name]

\* PageListItem.assign_profile
assign_profile(item, profile_name) ==
    set_assigned_state([item EXCEPT !.assigned_profile = profile_name])

\* a variant of mark_source_as_processed without the test of the done- prefix
mark_source_as_processed_again(st, source_path, denied) ==
    LET st1 == [st EXCEPT !.marked = Append(@, source_path)]
        new_path == PathParent(source_path) \o <<"/", "done-">> \o PathName(source_path)
    IN IF source_path \notin DOMAIN st.files \/ source_path \in denied
       THEN st1
       ELSE [st1 EXCEPT
               !.files = [p \in (DOMAIN st.files \ {source_path}) \cup {new_path} |->
                             IF p = new_path THEN st.files[source_path] ELSE st.files[p]],
               !.renamed = Append(@, source_path),
               !.items = [i \in DOMAIN st.items |->
                             IF st.items[i].source_path = source_path
                             THEN [st.items[i] EXCEPT !.source_path = new_path]
                             ELSE st.items[i]]]

\* a variant of mark_source_as_processed that renames the file and leaves
\* the page records as they were
mark_source_as_processed_keeps_records(st, source_path, denied) ==
    LET st1 == [st EXCEPT !.marked = Append(@, source_path)]
        new_path == PathParent(source_path) \o <<"/", "done-">> \o PathName(source_path)
    IN IF PathName(source_path) # <<>> /\ Head(PathName(source_path)) = "done-"
       THEN st1
       ELSE IF source_path \notin DOMAIN st.files \/ source_path \in denied
            THEN st1
            ELSE [st1 EXCEPT
                    !.files = [p \in (DOMAIN st.files \ {source_path}) \cup {new_path} |->
                                  IF p = new_path THEN st.files[source_path] ELSE st.files[p]],
                    !.renamed = Append(@, source_path)]

\* PageListWidget.mark_source_as_processed; st is the state of the running
\* assign_profile_to_selected call, denied the renames the filesystem refuses
mark_source_as_processed(st, source_path, denied) ==
    LET st1 == [st EXCEPT !.marked = Append(@, source_path)]
        new_path == PathParent(source_path) \o <<"/", "done-">> \o PathName(source_path)
    IN IF PathName(source_path) # <<>> /\ Head(PathName(source_path)) = "done-"
       THEN st1
       ELSE IF source_path \notin DOMAIN st.files \/ source_path \in denied
            THEN st1    \* OSError, swallowed
            ELSE [st1 EXCEPT
                    !.files = [p \in (DOMAIN st.files \ {source_path}) \cup {new_path} |->
                                  IF p = new_path THEN st.files[source_path] ELSE st.files[p]],
                    !.renamed = Append(@, source_path),
                    !.items = [i \in DOMAIN st.items |->
                                  IF st.items[i].source_path = source_path
                                  THEN [st.items[i] EXCEPT !.source_path = new_path]
                                  ELSE st.items[i]]]

\* the loop of PageListWidget.assign_profile_to_selected from item k on
RECURSIVE AssignLoop(_, _, _, _)
AssignLoop(k, st, profile_name, denied) ==
    IF k > Len(st.items) THEN st
    ELSE IF ~is_selected(st.items[k]) THEN AssignLoop(k + 1, st, profile_name, denied)
    ELSE LET source_path == st.items[k].source_path
             st1 == [st EXCEPT !.items[k] = assign_profile(@, profile_name),
                               !.selected_count = @ + 1]
             all_assigned == \A j \in DOMAIN st1.items :
                                st1.items[j].source_path = source_path
                                    => st1.items[j].assigned_profile # None
             st2 == [st1 EXCEPT !.processed_sources = @ \cup {source_path}]
         IN IF source_path \in st.processed_sources
            THEN AssignLoop(k + 1, st1, profile_name, denied)
            ELSE IF all_assigned
                 THEN AssignLoop(k + 1, mark_source_as_processed(st2, source_path, denied),
                                 profile_name, denied)
                 ELSE AssignLoop(k + 1, st2, profile_name, denied)

\* PageListWidget.assign_profile_to_selected
assign_profile_to_selected(items, fs, profile_name, denied) ==
    AssignLoop(1, [items |-> items, files |-> fs, selected_count |-> 0,
                   processed_sources |-> {}, marked |-> <<>>, renamed |-> <<>>],
               profile_name, denied)

(***************************************************************************)
(* Export job building                                                     *)
(***************************************************************************)
\* Path.exists()
Exists(fs, ds, p) == p \in DOMAIN fs \/ p \in ds

\* Path.suffix and Path.stem of a file name
Suffix(name) == IF Len(name) > 1 /\ name[Len(name)] = ".pdf" THEN <<".pdf">> ELSE <<>>

Stem(name) == SubSeq(name, 1, Len(name) - Len(Suffix(name)))

\* the while loop of FileUtils.ensure_unique_filename
RECURSIVE UniqueLoop(_, _, _, _)
UniqueLoop(fs, ds, path, counter) ==
    LET new_name == Stem(PathName(path)) \o <<"_", ToString(counter)>> \o Suffix(PathName(path))
        new_path == PathJoin(PathParent(path), new_name)
    IN IF ~Exists(fs, ds, new_path) THEN new_path ELSE UniqueLoop(fs, ds, path, counter + 1)

\* a variant of ensure_unique_filename that tries the counter 1 only
ensure_unique_filename_once(fs, ds, filepath) ==
    IF ~Exists(fs, ds, filepath) THEN filepath
    ELSE PathJoin(PathParent(filepath),
                  Stem(PathName(filepath)) \o <<"_", "1">> \o Suffix(PathName(filepath)))

\* FileUtils.ensure_unique_filename
ensure_unique_filename(fs, ds, filepath) ==
    IF ~Exists(fs, ds, filepath) THEN filepath ELSE UniqueLoop(fs, ds, filepath, 1)

\* str.endswith('.pdf')
EndsWithPdf(s) == s # <<>> /\ s[Len(s)] = ".pdf"

\* a variant of ResolvedPath without the test of output_base
ResolvedPath_without_folder_test(profile, out_folder) ==
    LET output_base == IF profile.output_folder # <<>> THEN profile.output_folder
                       ELSE out_folder
        Generated(generated) ==
            [status |-> "ok",
             output_path |-> IF EndsWithPdf(generated.out) THEN generated.out
                             ELSE generated.out \o <<".pdf">>]
    IN Generated(generate_output_path(profile, output_base))

\* export_all_assigned, lines 231-243: where a page of this profile goes:
\* [status, output_path]
ResolvedPath(profile, out_folder) ==
    LET output_base == IF profile.output_folder # <<>> THEN profile.output_folder
                       ELSE out_folder
        Generated(generated) ==
            IF generated.err # "" THEN [status |-> "raise", output_path |-> <<>>]
            ELSE [status |-> "ok",
                  output_path |-> IF EndsWithPdf(generated.out) THEN generated.out
                                  ELSE generated.out \o <<".pdf">>]
    IN IF output_base = <<>> THEN [status |-> "no_output_folder", output_path |-> <<>>]
       ELSE Generated(generate_output_path(profile, output_base))

\* a variant of GroupAppend that opens a new group for every page
GroupAppend_never_merges(groups, output_path, page) ==
    Append(groups, [output_path |-> output_path, pages_group |-> <<page>>])

\* profile_groups[output_path].append(page_data); a dict keeps insertion order
GroupAppend(groups, output_path, page) ==
    IF \E g \in DOMAIN groups : groups[g].output_path = output_path
    THEN [g \in DOMAIN groups |->
            IF groups[g].output_path = output_path
            THEN [groups[g] EXCEPT !.pages_group = Append(@, page)]
            ELSE groups[g]]
    ELSE Append(groups, [output_path |-> output_path, pages_group |-> <<page>>])

\* the first loop of PDFExtractorApp.export_all_assigned from page k on:
\* [status, groups]; status "no_output_folder" and "raise" end the handler
RECURSIVE GroupLoop(_, _, _, _, _)
GroupLoop(k, items, store, out_folder, groups) ==
    IF k > Len(items) THEN [status |-> "ok", groups |-> groups]
    ELSE IF ~Truthy(items[k].assigned_profile)
         THEN GroupLoop(k + 1, items, store, out_folder, groups)
    ELSE IF get_profile(store, items[k].assigned_profile) = 0
         THEN GroupLoop(k + 1, items, store, out_folder, groups)
    ELSE LET profile == store[get_profile(store, items[k].assigned_profile)]
             page == [source_path |-> items[k].source_path,
                      page_number |-> items[k].page_number]
             Grouped(resolved) ==
                 IF resolved.status # "ok" THEN [status |-> resolved.status, groups |-> <<>>]
                 ELSE GroupLoop(k + 1, items, store, out_folder,
                                GroupAppend(groups, resolved.output_path, page))
         IN Grouped(ResolvedPath(profile, out_folder))

\* a variant of ExportJob that carries the first page of the group only
ExportJob_of_first_page(fs, ds, group) ==
    [source_path |-> <<"BATCH">>, page_number |-> 0,
     output_path |-> ensure_unique_filename(fs, ds, group.output_path),
     pages_group |-> <<group.pages_group[1]>>]

\* the second loop of export_all_assigned: one ExportJob per group
ExportJob(fs, ds, group) ==
    [source_path |-> <<"BATCH">>, page_number |-> 0,
     output_path |-> ensure_unique_filename(fs, ds, group.output_path),
     pages_group |-> group.pages_group]

\* job building of export_all_assigned: [status, jobs]
BuildJobs(items, store, out_folder, fs, ds) ==
    LET Jobs(built) ==
            IF built.status # "ok" THEN [status |-> built.status, jobs |-> <<>>]
            ELSE IF built.groups = <<>> THEN [status |-> "no_valid_jobs", jobs |-> <<>>]
            ELSE [status |-> "ok",
                  jobs |-> [g \in DOMAIN built.groups |->
                               ExportJob(fs, ds, built.groups[g])]]
    IN IF ~\E i \in DOMAIN items : Truthy(items[i].assigned_profile)
       THEN [status |-> "no_assigned_pages", jobs |-> <<>>]
       ELSE Jobs(GroupLoop(1, items, store, out_folder, <<>>))

(***************************************************************************)
(* Filesystem and PDF library                                              *)
(***************************************************************************)
RECURSIVE SetToSeq(_)
SetToSeq(S) == IF S = {} THEN <<>> ELSE LET x == CHOOSE x \in S : TRUE IN <<x>> \o SetToSeq(S \ {x})

\* a directory and every directory above it
RECURSIVE Ancestors(_)
Ancestors(d) == IF d = <<>> \/ d = <<"/">> \/ d = <<".">> THEN {}
                ELSE {d} \cup Ancestors(PathParent(d))

\* Path.mkdir(parents=True, exist_ok=True): [ok, dirs]
Mkdir(fs, ds, d, denied) ==
    IF d \in denied \/ \E a \in Ancestors(d) : a \in DOMAIN fs
    THEN [ok |-> FALSE, dirs |-> ds]
    ELSE [ok |-> TRUE, dirs |-> ds \cup Ancestors(d)]

\* PDFService.find_pdf_files: folder.glob("*.pdf"), non-recursive
find_pdf_files(fs, ds, folder) ==
    IF folder \notin ds THEN <<>>
    ELSE SetToSeq({f \in DOMAIN fs : PathParent(f) = folder /\ EndsWithPdf(PathName(f))})

\* PDFService.load_pages_from_file: [] when the document cannot be opened
load_pages_from_file(fs, pdf_path) ==
    IF pdf_path \in DOMAIN fs /\ fs[pdf_path].pdf
    THEN [n \in 1..Len(fs[pdf_path].pages) |-> PDFPageData(pdf_path, n - 1)]
    ELSE <<>>

\* ExportService.validate_export_jobs from job k on: [errors, dirs]
RECURSIVE ValidateLoop(_, _, _, _, _, _)
ValidateLoop(k, jobs, fs, ds, denied, errors) ==
    IF k > Len(jobs) THEN [errors |-> errors, dirs |-> ds]
    ELSE LET e1 == IF ~Exists(fs, ds, jobs[k].source_path)
                   THEN <<[job |-> k, error |-> "Source file not found"]>> ELSE <<>>
             made == Mkdir(fs, ds, PathParent(jobs[k].output_path), denied)
             e2 == IF ~made.ok
                   THEN <<[job |-> k, error |-> "Cannot create output directory"]>> ELSE <<>>
         IN ValidateLoop(k + 1, jobs, fs, made.dirs, denied, errors \o e1 \o e2)

\* a variant of validate_export_jobs that stops at the first error
validate_first_error_only(jobs, fs, ds, denied) ==
    LET First(v) == [errors |-> IF v.errors = <<>> THEN <<>> ELSE <<v.errors[1]>>,
                     dirs |-> v.dirs]
    IN First(ValidateLoop(1, jobs, fs, ds, denied, <<>>))

validate_export_jobs(jobs, fs, ds, denied) == ValidateLoop(1, jobs, fs, ds, denied, <<>>)

\* ExportService.export_page: [success, files, dirs]; the new document holds
\* page job.page_number of the document at job.source_path
export_page(job, fs, ds, denied, save_ok) ==
    LET made == Mkdir(fs, ds, PathParent(job.output_path), denied)
        opened == job.source_path \in DOMAIN fs /\ fs[job.source_path].pdf
                  /\ job.page_number < Len(fs[job.source_path].pages)
        new_doc == [pdf |-> TRUE, pages |-> <<fs[job.source_path].pages[job.page_number + 1]>>]
    IN IF ~made.ok THEN [success |-> FALSE, files |-> fs, dirs |-> ds]
       ELSE IF ~opened \/ ~save_ok \/ job.output_path \in made.dirs
            THEN [success |-> FALSE, files |-> fs, dirs |-> made.dirs]
       ELSE [success |-> TRUE,
             files |-> [q \in DOMAIN fs \cup {job.output_path} |->
                          IF q = job.output_path THEN new_doc ELSE fs[q]],
             dirs |-> made.dirs]

(***************************************************************************)
(* Worker threads                                                          *)
(***************************************************************************)
\* PDFLoader.__init__ / PDFExporter.__init__ followed by start()
NewTask(kind, folder_path, export_jobs) ==
    [kind |-> kind, pc |-> "start", stop_requested |-> FALSE,
     folder_path |-> folder_path, pdf_files |-> <<>>, all_pages |-> <<>>,
     export_jobs |-> export_jobs, errors |-> <<>>, results |-> <<>>, i |-> 0,
     emitted |-> <<>>, units |-> <<>>, outcome |-> ""]

\* QThread.isRunning()
isRunning(task) == task.pc \notin {"done", "terminated"}

\* the thread is inside a call into the filesystem or the PDF library
InLibraryCall(task) == task.pc \in {"find", "in_open", "validate", "in_export"}

\* Signal.emit from the worker thread: queued for the UI thread.  progress is
\* connected to status_text.append only, which the model does not keep, so a
\* progress signal is recorded as emitted and not queued.
Emit(t, task, sig, payload) ==
    /\ tasks' = [tasks EXCEPT ![t] = [task EXCEPT !.emitted = Append(@, sig)]]
    /\ msgs' = IF sig = "progress" THEN msgs
               ELSE Append(msgs, [task |-> t, sig |-> sig, payload |-> payload])

\* a return statement of run: control passes to the finally clause; outcome
\* names which return it was
Return(task, outcome) == [task EXCEPT !.pc = "finally", !.outcome = outcome]

\* a variant of the flag test that never sees the request
StopNeverSeen(task) == FALSE

\* "if self._stop_requested:" in run
StopRequested(task) == task.stop_requested

WorkerFrame == UNCHANGED <<page_items, profiles, current_profile, output_folder,
                           export_btn_enabled, loader, exporter, ui_pc, last_call>>

\* PDFLoader.run, lines 28-31
LoaderBegin(t) ==
    /\ tasks[t].kind = "load" /\ tasks[t].pc = "start"
    /\ IF StopRequested(tasks[t])
       THEN tasks' = [tasks EXCEPT ![t] = Return(@, "Cancelled")] /\ msgs' = msgs
       ELSE Emit(t, [tasks[t] EXCEPT !.pc = "find"], "progress", <<>>)
    /\ UNCHANGED <<files, dirs>> /\ WorkerFrame

\* PDFLoader.run, lines 34-38
LoaderFind(t) ==
    /\ tasks[t].kind = "load" /\ tasks[t].pc = "find"
    /\ LET pdf_files == find_pdf_files(files, dirs, tasks[t].folder_path)
       IN IF pdf_files = <<>>
          THEN Emit(t, Return(tasks[t], "Failed"), "error",
                    "No PDF files found in the selected folder.")
          ELSE tasks' = [tasks EXCEPT ![t] = [@ EXCEPT !.pc = "after_find",
                                                       !.pdf_files = pdf_files]]
               /\ msgs' = msgs
    /\ UNCHANGED <<files, dirs>> /\ WorkerFrame

\* PDFLoader.run, lines 40-46
LoaderAfterFind(t) ==
    /\ tasks[t].kind = "load" /\ tasks[t].pc = "after_find"
    /\ IF StopRequested(tasks[t])
       THEN tasks' = [tasks EXCEPT ![t] = Return(@, "Cancelled")] /\ msgs' = msgs
       ELSE Emit(t, [tasks[t] EXCEPT !.pc = "loop", !.i = 1, !.all_pages = <<>>],
                 "progress", <<>>)
    /\ UNCHANGED <<files, dirs>> /\ WorkerFrame

\* PDFLoader.run, lines 48-52 and 62-63: the head of the for loop, and the
\* test that follows the loop
LoaderLoop(t) ==
    /\ tasks[t].kind = "load" /\ tasks[t].pc = "loop"
    /\ IF StopRequested(tasks[t])
       THEN tasks' = [tasks EXCEPT ![t] = Return(@, "Cancelled")] /\ msgs' = msgs
       ELSE IF tasks[t].i <= Len(tasks[t].pdf_files)
            THEN Emit(t, [tasks[t] EXCEPT !.pc = "open"], "progress", <<>>)
       ELSE tasks' = [tasks EXCEPT ![t] = [@ EXCEPT !.pc = "report"]] /\ msgs' = msgs
    /\ UNCHANGED <<files, dirs>> /\ WorkerFrame

\* a variant of LoaderReport that reports the pages even when there are none
LoaderReport_reports_empty(t) ==
    /\ tasks[t].kind = "load" /\ tasks[t].pc = "report"
    /\ Emit(t, Return(tasks[t], "Completed"), "pages_loaded", tasks[t].all_pages)
    /\ UNCHANGED <<files, dirs>> /\ WorkerFrame

\* PDFLoader.run, lines 65-69
LoaderReport(t) ==
    /\ tasks[t].kind = "load" /\ tasks[t].pc = "report"
    /\ IF tasks[t].all_pages # <<>>
       THEN Emit(t, Return(tasks[t], "Completed"), "pages_loaded", tasks[t].all_pages)
       ELSE Emit(t, Return(tasks[t], "Failed"), "error", "No valid pages found in PDF files.")
    /\ UNCHANGED <<files, dirs>> /\ WorkerFrame

\* PDFLoader.run, line 55: the call of PDFService.load_pages_from_file begins
LoaderOpen(t) ==
    /\ tasks[t].kind = "load" /\ tasks[t].pc = "open"
    /\ tasks' = [tasks EXCEPT ![t] =
                    [@ EXCEPT !.pc = "in_open",
                              !.units = Append(@, [unit |-> tasks[t].i,
                                                   stop_requested |-> tasks[t].stop_requested])]]
    /\ UNCHANGED <<msgs, files, dirs>> /\ WorkerFrame

\* PDFLoader.run, lines 55-57: the call returns
LoaderLoaded(t) ==
    /\ tasks[t].kind = "load" /\ tasks[t].pc = "in_open"
    /\ LET pages == load_pages_from_file(files, tasks[t].pdf_files[tasks[t].i])
       IN Emit(t, [tasks[t] EXCEPT !.pc = "loop", !.i = @ + 1,
                                   !.all_pages = @ \o pages], "progress", <<>>)
    /\ UNCHANGED <<files, dirs>> /\ WorkerFrame

\* PDFExporter.run, lines 97-100
ExporterBegin(t) ==
    /\ tasks[t].kind = "export" /\ tasks[t].pc = "start"
    /\ IF StopRequested(tasks[t])
       THEN tasks' = [tasks EXCEPT ![t] = Return(@, "Cancelled")] /\ msgs' = msgs
       ELSE Emit(t, [tasks[t] EXCEPT !.pc = "validate"], "progress", <<>>)
    /\ UNCHANGED <<files, dirs>> /\ WorkerFrame

\* PDFExporter.run, lines 103-106
ExporterValidate(t) ==
    /\ tasks[t].kind = "export" /\ tasks[t].pc = "validate"
    /\ \E denied \in SUBSET {PathParent(tasks[t].export_jobs[k].output_path) :
                                k \in DOMAIN tasks[t].export_jobs} :
         LET v == validate_export_jobs(tasks[t].export_jobs, files, dirs, denied)
         IN /\ dirs' = v.dirs
            /\ IF v.errors # <<>>
               THEN Emit(t, [Return(tasks[t], "Failed") EXCEPT !.errors = v.errors],
                         "error", v.errors)
               ELSE tasks' = [tasks EXCEPT ![t] = [@ EXCEPT !.pc = "after_validate"]]
                    /\ msgs' = msgs
    /\ UNCHANGED files /\ WorkerFrame

\* PDFExporter.run, lines 108-116
ExporterAfterValidate(t) ==
    /\ tasks[t].kind = "export" /\ tasks[t].pc = "after_validate"
    /\ IF StopRequested(tasks[t])
       THEN tasks' = [tasks EXCEPT ![t] = Return(@, "Cancelled")] /\ msgs' = msgs
       ELSE Emit(t, [tasks[t] EXCEPT !.pc = "loop", !.i = 1, !.results = <<>>],
                 "progress", <<>>)
    /\ UNCHANGED <<files, dirs>> /\ WorkerFrame

\* PDFExporter.run, lines 118-122 and 135-136
ExporterLoop(t) ==
    /\ tasks[t].kind = "export" /\ tasks[t].pc = "loop"
    /\ IF StopRequested(tasks[t])
       THEN tasks' = [tasks EXCEPT ![t] = Return(@, "Cancelled")] /\ msgs' = msgs
       ELSE IF tasks[t].i <= Len(tasks[t].export_jobs)
            THEN Emit(t, [tasks[t] EXCEPT !.pc = "export"], "progress", <<>>)
       ELSE tasks' = [tasks EXCEPT ![t] = [@ EXCEPT !.pc = "report"]] /\ msgs' = msgs
    /\ UNCHANGED <<files, dirs>> /\ WorkerFrame

\* PDFExporter.run, lines 138-147
ExporterReport(t) ==
    /\ tasks[t].kind = "export" /\ tasks[t].pc = "report"
    /\ Emit(t, Return(tasks[t], "Completed"), "export_complete", tasks[t].results)
    /\ UNCHANGED <<files, dirs>> /\ WorkerFrame

\* PDFExporter.run, line 124: the call of ExportService.export_page begins
ExporterExport(t) ==
    /\ tasks[t].kind = "export" /\ tasks[t].pc = "export"
    /\ tasks' = [tasks EXCEPT ![t] =
                    [@ EXCEPT !.pc = "in_export",
                              !.units = Append(@, [unit |-> tasks[t].i,
                                                   stop_requested |-> tasks[t].stop_requested])]]
    /\ UNCHANGED <<msgs, files, dirs>> /\ WorkerFrame

\* a variant of ExporterExported in which a failed job ends the batch
ExporterExported_aborts_on_failure(t) ==
    /\ tasks[t].kind = "export" /\ tasks[t].pc = "in_export"
    /\ \E save_ok \in BOOLEAN :
         LET job == tasks[t].export_jobs[tasks[t].i]
             r == export_page(job, files, dirs, {}, save_ok)
         IN /\ files' = r.files
            /\ dirs' = r.dirs
            /\ Emit(t, [tasks[t] EXCEPT !.pc = IF r.success THEN "loop" ELSE "report",
                                        !.i = @ + 1,
                                        !.results = Append(@, [job |-> tasks[t].i,
                                                               success |-> r.success])],
                    "progress", <<>>)
    /\ WorkerFrame

\* PDFExporter.run, lines 124-133: the call returns
ExporterExported(t) ==
    /\ tasks[t].kind = "export" /\ tasks[t].pc = "in_export"
    /\ \E save_ok \in BOOLEAN :
         LET job == tasks[t].export_jobs[tasks[t].i]
             r == export_page(job, files, dirs, {}, save_ok)
         IN /\ files' = r.files
            /\ dirs' = r.dirs
            /\ Emit(t, [tasks[t] EXCEPT !.pc = "loop", !.i = @ + 1,
                                        !.results = Append(@, [job |-> tasks[t].i,
                                                               success |-> r.success])],
                    "progress", <<>>)
    /\ WorkerFrame

\* the finally clause of run: finished.emit(), then the thread ends
Finally(t) ==
    /\ tasks[t].pc = "finally"
    /\ Emit(t, [tasks[t] EXCEPT !.pc = "done"], "finished", <<>>)
    /\ UNCHANGED <<files, dirs>> /\ WorkerFrame

\* an exception leaves a call that run does not wrap in a try of its own:
\* Path.glob inside find_pdf_files, Path.exists inside validate_export_jobs
\* (load_pages_from_file and export_page catch every Exception themselves)
Raises(t) ==
    /\ tasks[t].pc \in {"find", "validate"}
    /\ tasks' = [tasks EXCEPT ![t] = [@ EXCEPT !.pc = "except"]]
    /\ UNCHANGED <<msgs, files, dirs>> /\ WorkerFrame

\* a variant of Except that emits the message whether or not a stop was
\* requested
Except_always_reports(t) ==
    /\ tasks[t].pc = "except"
    /\ Emit(t, Return(tasks[t], "Failed"), "error",
            IF tasks[t].kind = "load" THEN "Error loading PDFs: " ELSE "Export error: ")
    /\ UNCHANGED <<files, dirs>> /\ WorkerFrame

\* the except clause of run (PDFLoader lines 71-73, PDFExporter lines
\* 149-151): the message is emitted only when no stop was requested
Except(t) ==
    /\ tasks[t].pc = "except"
    /\ IF ~StopRequested(tasks[t])
       THEN Emit(t, Return(tasks[t], "Failed"), "error",
                 IF tasks[t].kind = "load" THEN "Error loading PDFs: " ELSE "Export error: ")
       ELSE tasks' = [tasks EXCEPT ![t] = Return(@, "Swallowed")] /\ msgs' = msgs
    /\ UNCHANGED <<files, dirs>> /\ WorkerFrame

(***************************************************************************)
(* UI thread: page list                                                    *)
(***************************************************************************)
Idle == [pc |-> "idle", folder |-> <<>>, out |-> <<>>, jobs |-> <<>>]

\* what a handler call leaves to observe: its name, argument and result
Call(op) == [tick |-> ~last_call.tick, op |-> op, arg |-> None, status |-> "",
             ret |-> 0, marked |-> <<>>, jobs |-> <<>>, errors |-> <<>>]

CatalogFrame == UNCHANGED <<files, dirs, profiles, current_profile, output_folder,
                            loader, exporter, tasks, msgs, ui_pc>>

\* PageListWidget.select_all
select_all ==
    /\ ui_pc.pc = "idle"
    /\ page_items' = [i \in DOMAIN page_items |->
                        IF ~page_items[i].hidden THEN set_selected(page_items[i], TRUE)
                        ELSE page_items[i]]
    /\ export_btn_enabled' = SelectionSignal(page_items, page_items')
    /\ UNCHANGED last_call
    /\ CatalogFrame

\* PageListWidget.clear_all
clear_all ==
    /\ ui_pc.pc = "idle"
    /\ page_items' = [i \in DOMAIN page_items |-> set_selected(page_items[i], FALSE)]
    /\ export_btn_enabled' = SelectionSignal(page_items, page_items')
    /\ UNCHANGED last_call
    /\ CatalogFrame

\* PageListWidget.invert_selection
invert_selection ==
    /\ ui_pc.pc = "idle"
    /\ page_items' = [i \in DOMAIN page_items |->
                        IF ~page_items[i].hidden
                        THEN set_selected(page_items[i], ~is_selected(page_items[i]))
                        ELSE page_items[i]]
    /\ export_btn_enabled' = SelectionSignal(page_items, page_items')
    /\ UNCHANGED last_call
    /\ CatalogFrame

\* PageListItem.mousePressEvent with the left button on a visible item
mousePressEvent(i) ==
    /\ ui_pc.pc = "idle"
    /\ ~page_items[i].hidden
    /\ page_items' = [page_items EXCEPT ![i] = set_selected(@, ~is_selected(@))]
    /\ export_btn_enabled' = SelectionSignal(page_items, page_items')
    /\ UNCHANGED last_call
    /\ CatalogFrame

\* a variant of apply_filter that unticks the items it hides
apply_filter_deselects_hidden(text) ==
    /\ ui_pc.pc = "idle"
    /\ LET filter_text == strip(lower(text))
           matches(item) ==
               \/ In(filter_text, lower(source_filename(item)))
               \/ In(filter_text, <<ToString(item.page_number + 1)>>)
               \/ Truthy(item.assigned_profile)
                  /\ In(filter_text, lower(<<item.assigned_profile>>))
       IN page_items' = [i \in DOMAIN page_items |->
                           IF filter_text = <<>> THEN [page_items[i] EXCEPT !.hidden = FALSE]
                           ELSE IF matches(page_items[i])
                                THEN [page_items[i] EXCEPT !.hidden = FALSE]
                           ELSE [page_items[i] EXCEPT !.hidden = TRUE, !.selected = FALSE]]
    /\ UNCHANGED last_call
    /\ UNCHANGED export_btn_enabled
    /\ CatalogFrame

\* PageListWidget.apply_filter
apply_filter(text) ==
    /\ ui_pc.pc = "idle"
    /\ LET filter_text == strip(lower(text))
           matches(item) ==
               \/ In(filter_text, lower(source_filename(item)))
               \/ In(filter_text, <<ToString(item.page_number + 1)>>)
               \/ Truthy(item.assigned_profile)
                  /\ In(filter_text, lower(<<item.assigned_profile>>))
       IN page_items' = [i \in DOMAIN page_items |->
                           [page_items[i] EXCEPT !.hidden =
                               IF filter_text = <<>> THEN FALSE ELSE ~matches(page_items[i])]]
    /\ UNCHANGED last_call
    /\ UNCHANGED export_btn_enabled
    /\ CatalogFrame

(***************************************************************************)
(* UI thread: index panel                                                  *)
(***************************************************************************)
\* IndexPanel.on_profile_selected: the combo box shows the name of profile i
on_profile_selected(i) ==
    /\ ui_pc.pc = "idle"
    /\ i \in DOMAIN profiles
    /\ current_profile' = get_profile(profiles, profiles[i].name)
    /\ UNCHANGED <<page_items, files, dirs, profiles, output_folder, export_btn_enabled,
                   loader, exporter, tasks, msgs, ui_pc, last_call>>

\* FieldEditor.on_value_changed on field k of the current profile, followed by
\* IndexPanel.auto_save_profile
on_value_changed(k, value) ==
    /\ ui_pc.pc = "idle"
    /\ current_profile # 0
    /\ k \in DOMAIN profiles[current_profile].fields
    /\ profiles' = [profiles EXCEPT ![current_profile].fields[k].value = value]
    /\ files' = save_profiles(files, profiles')
    /\ UNCHANGED <<page_items, dirs, current_profile, output_folder,
                   export_btn_enabled, loader, exporter, tasks, msgs, ui_pc, last_call>>

\* ProfileManager.remove_profile: the list that is left; the save that
\* follows a removal is in delete_profile
remove_profile(store, profile_name) == SelectSeq(store, LAMBDA q : q.name # profile_name)

\* IndexPanel.delete_profile answered Yes: remove_profile, then
\* refresh_profiles leaves the first remaining profile selected
delete_profile ==
    /\ ui_pc.pc = "idle"
    /\ current_profile # 0
    /\ profiles' = remove_profile(profiles, profiles[current_profile].name)
    /\ files' = IF Len(profiles') < Len(profiles) THEN save_profiles(files, profiles')
                ELSE files
    /\ current_profile' = IF profiles' = <<>> THEN 0 ELSE 1
    /\ UNCHANGED <<page_items, dirs, output_folder, export_btn_enabled,
                   loader, exporter, tasks, msgs, ui_pc, last_call>>

\* PDFExtractorApp.apply_profile_to_selected, the slot of profile_applied
apply_profile_to_selected(profile_name) ==
    IF get_selected_pages(page_items) = {}
    THEN /\ last_call' = [Call("apply_profile_to_selected") EXCEPT
                             !.arg = profile_name, !.status = "no_selection"]
         /\ UNCHANGED <<page_items, files, export_btn_enabled>>
    ELSE \E denied \in SUBSET {page_items[i].source_path : i \in get_selected_pages(page_items)} :
            LET done == assign_profile_to_selected(page_items, files, profile_name, denied)
            IN /\ page_items' = done.items
               /\ files' = done.files
               /\ export_btn_enabled' =
                      update_export_button_state(done.items, profiles, output_folder)
               /\ last_call' = [Call("apply_profile_to_selected") EXCEPT
                                   !.arg = profile_name, !.status = "assigned",
                                   !.ret = done.selected_count,
                                   !.marked = done.marked]

\* IndexPanel.apply_to_selected
apply_to_selected ==
    /\ ui_pc.pc = "idle"
    /\ current_profile # 0
    /\ IF validate_all_fields(profiles[current_profile]) # <<>>
       THEN /\ last_call' = [Call("apply_to_selected") EXCEPT
                                !.arg = profiles[current_profile].name,
                                !.status = "validation_error",
                                !.errors = ErrorMessages(profiles[current_profile])]
            /\ UNCHANGED <<page_items, files, export_btn_enabled>>
       ELSE apply_profile_to_selected(profiles[current_profile].name)
    /\ UNCHANGED <<dirs, profiles, current_profile, output_folder,
                   loader, exporter, tasks, msgs, ui_pc>>

\* IndexPanel.batch_assign, whose signal reaches
\* PDFExtractorApp.batch_assign_profile
batch_assign ==
    /\ ui_pc.pc = "idle"
    /\ current_profile # 0
    /\ IF validate_all_fields(profiles[current_profile]) # <<>>
       THEN /\ last_call' = [Call("batch_assign") EXCEPT
                                !.arg = profiles[current_profile].name,
                                !.status = "validation_error",
                                !.errors = ErrorMessages(profiles[current_profile])]
            /\ UNCHANGED <<page_items, files, export_btn_enabled>>
       ELSE apply_profile_to_selected(profiles[current_profile].name)
    /\ UNCHANGED <<dirs, profiles, current_profile, output_folder,
                   loader, exporter, tasks, msgs, ui_pc>>

(***************************************************************************)
(* UI thread: controller (PDFExtractorApp)                                 *)
(***************************************************************************)
\* PDFLoader.stop / PDFExporter.stop
stop(task) == [task EXCEPT !.stop_requested = TRUE]

\* QThread.wait(1000) returns: the thread has ended, or the second has passed
\* while the thread was inside a filesystem or PDF library call
WaitReturns(task) == ~isRunning(task) \/ InLibraryCall(task)

\* PDFExtractorApp.load_pdfs from clear_pages on (lines 160-175), then the
\* rest of load_from_profile_folders (lines 136-139)
StartLoader(folder_path, out, ts) ==
    /\ page_items' = <<>>
    /\ tasks' = Append(ts, NewTask("load", folder_path, <<>>))
    /\ loader' = Len(ts) + 1
    /\ output_folder' = IF out # <<>> THEN out ELSE output_folder
    /\ export_btn_enabled' = FALSE
    /\ ui_pc' = Idle

\* IndexPanel.load_from_profile_input -> load_from_profile_folders ->
\* load_pdfs up to the wait on the previous loader (lines 155-157)
load_from_profile_input ==
    /\ ui_pc.pc = "idle"
    /\ current_profile # 0
    /\ profiles[current_profile].input_folder # <<>>
    /\ Len(tasks) < MaxStarts
    /\ LET folder_path == profiles[current_profile].input_folder
           out == profiles[current_profile].output_folder
       IN IF loader # 0 /\ isRunning(tasks[loader])
          THEN /\ tasks' = [tasks EXCEPT ![loader] = stop(@)]
               /\ ui_pc' = [pc |-> "load_wait", folder |-> folder_path, out |-> out,
                            jobs |-> <<>>]
               /\ UNCHANGED <<page_items, loader, output_folder, export_btn_enabled>>
          ELSE StartLoader(folder_path, out, tasks)
    /\ UNCHANGED <<files, dirs, profiles, current_profile, exporter, msgs, last_call>>

\* load_pdfs after self.loader.wait(1000): cleanup_loader, then a new loader
load_wait_returns ==
    /\ ui_pc.pc = "load_wait"
    /\ WaitReturns(tasks[loader])
    /\ StartLoader(ui_pc.folder, ui_pc.out, tasks)
    /\ UNCHANGED <<files, dirs, profiles, current_profile, exporter, msgs, last_call>>

\* PDFExtractorApp.export_all_assigned from "Start export" on (lines 277-286)
StartExporter(export_jobs, ts) ==
    /\ tasks' = Append(ts, NewTask("export", <<>>, export_jobs))
    /\ exporter' = Len(ts) + 1
    /\ export_btn_enabled' = FALSE
    /\ ui_pc' = Idle

\* PDFExtractorApp.export_all_assigned, the slot of export_btn.clicked, up to
\* the wait on the previous exporter (lines 216-274)
export_all_assigned ==
    /\ ui_pc.pc = "idle"
    /\ export_btn_enabled
    /\ \E built \in {BuildJobs(page_items, profiles, output_folder, files, dirs)} :
          /\ built.status = "ok" => Len(tasks) < MaxStarts
          /\ last_call' = [Call("export_all_assigned") EXCEPT
                              !.status = built.status, !.jobs = built.jobs]
          /\ IF built.status # "ok"
             THEN UNCHANGED <<tasks, exporter, export_btn_enabled, ui_pc>>
             ELSE IF exporter # 0 /\ isRunning(tasks[exporter])
                  THEN /\ tasks' = [tasks EXCEPT ![exporter] = stop(@)]
                       /\ ui_pc' = [pc |-> "export_wait", folder |-> <<>>, out |-> <<>>,
                                    jobs |-> built.jobs]
                       /\ UNCHANGED <<exporter, export_btn_enabled>>
             ELSE StartExporter(built.jobs, tasks)
    /\ UNCHANGED <<page_items, files, dirs, profiles, current_profile, output_folder,
                   loader, msgs>>

\* export_all_assigned after self.exporter.wait(1000): cleanup_exporter, then
\* a new exporter
export_wait_returns ==
    /\ ui_pc.pc = "export_wait"
    /\ WaitReturns(tasks[exporter])
    /\ StartExporter(ui_pc.jobs, tasks)
    /\ UNCHANGED <<page_items, files, dirs, profiles, current_profile, output_folder,
                   loader, msgs, last_call>>

\* the head of the queue is signal sig of a task of that kind
Head_is(kind, sig) ==
    /\ ui_pc.pc = "idle"
    /\ msgs # <<>>
    /\ tasks[Head(msgs).task].kind = kind
    /\ Head(msgs).sig = sig

\* PDFExtractorApp.on_pages_loaded: PageListWidget.load_pages builds a new
\* item for every page
on_pages_loaded ==
    /\ Head_is("load", "pages_loaded")
    /\ page_items' = Head(msgs).payload
    /\ export_btn_enabled' = update_export_button_state(page_items', profiles, output_folder)
    /\ msgs' = Tail(msgs)
    /\ UNCHANGED <<files, dirs, profiles, current_profile, output_folder, loader, exporter,
                   tasks, ui_pc, last_call>>

\* PDFExtractorApp.on_load_error
on_load_error ==
    /\ Head_is("load", "error")
    /\ msgs' = Tail(msgs)
    /\ UNCHANGED <<page_items, files, dirs, profiles, current_profile, output_folder,
                   export_btn_enabled, loader, exporter, tasks, ui_pc, last_call>>

\* the two slots of loader.finished: cleanup_loader, set_buttons_enabled(True)
cleanup_loader ==
    /\ Head_is("load", "finished")
    /\ loader' = 0
    /\ export_btn_enabled' = update_export_button_state(page_items, profiles, output_folder)
    /\ msgs' = Tail(msgs)
    /\ UNCHANGED <<page_items, files, dirs, profiles, current_profile, output_folder,
                   exporter, tasks, ui_pc, last_call>>

\* PDFExtractorApp.on_export_complete
on_export_complete ==
    /\ Head_is("export", "export_complete")
    /\ msgs' = Tail(msgs)
    /\ UNCHANGED <<page_items, files, dirs, profiles, current_profile, output_folder,
                   export_btn_enabled, loader, exporter, tasks, ui_pc, last_call>>

\* PDFExtractorApp.on_export_error
on_export_error ==
    /\ Head_is("export", "error")
    /\ msgs' = Tail(msgs)
    /\ UNCHANGED <<page_items, files, dirs, profiles, current_profile, output_folder,
                   export_btn_enabled, loader, exporter, tasks, ui_pc, last_call>>

\* the two slots of exporter.finished: cleanup_exporter,
\* set_buttons_enabled(True)
cleanup_exporter ==
    /\ Head_is("export", "finished")
    /\ exporter' = 0
    /\ export_btn_enabled' = update_export_button_state(page_items, profiles, output_folder)
    /\ msgs' = Tail(msgs)
    /\ UNCHANGED <<page_items, files, dirs, profiles, current_profile, output_folder,
                   loader, tasks, ui_pc, last_call>>

(***************************************************************************)
(* Initial states                                                          *)
(***************************************************************************)
InFolder == <<"/", "in">>
OutFolder == <<"/", "out">>
EmptyFolder == <<"/", "empty">>
SourceA == <<"/", "in", "/", "a", ".pdf">>
SourceB == <<"/", "in", "/", "b", ".pdf">>

\* a PDF document of n pages first seen at path
Document(path, n) == [pdf |-> TRUE, pages |-> [k \in 1..n |-> [source_path |-> path,
                                                            page_number |-> k - 1]]]

\* the input folder: a.pdf and the one-page b.pdf
SourceFiles == [f \in {SourceA, SourceB} |->
                   IF f = SourceA THEN Document(SourceA, PagesInA) ELSE Document(SourceB, 1)]

\* the IndexField dataclass; placeholder, field_type and options at their
\* defaults
IndexField(name, value, required) ==
    [name |-> name, value |-> value, placeholder |-> "", required |-> required,
     field_type |-> "text", options |-> <<>>]

\* the IndexProfile dataclass; description at its default
IndexProfile(name, fields, output_pattern, input_folder, out) ==
    [name |-> name, description |-> "", fields |-> fields,
     output_pattern |-> output_pattern, input_folder |-> input_folder,
     output_folder |-> out]

VendorPattern == <<"{", "vendor", "}">>

Inv == IndexProfile("inv", <<IndexField(<<"Vendor">>, <<"acme">>, TRUE)>>,
                    VendorPattern, InFolder, OutFolder)

Doc == IndexProfile("doc", <<IndexField(<<"Vendor">>, <<"bolt">>, FALSE)>>,
                    VendorPattern, EmptyFolder, <<>>)

\* PageListWidget.load_pages over the result of a completed load of InFolder
LoadedPages(fs, ds) ==
    LET pdf_files == find_pdf_files(fs, ds, InFolder)
        RECURSIVE Pages(_)
        Pages(k) == IF k > Len(pdf_files) THEN <<>>
                    ELSE load_pages_from_file(fs, pdf_files[k]) \o Pages(k + 1)
    IN Pages(1)

NoCall == [tick |-> FALSE, op |-> "", arg |-> None, status |-> "", ret |-> 0,
           marked |-> <<>>, jobs |-> <<>>, errors |-> <<>>]

FilterTexts == {<<>>, <<"2">>}

\* the application after a load of InFolder has completed
InitCatalog ==
    /\ files = save_profiles(SourceFiles, <<Inv, Doc>>)
    /\ dirs = {InFolder}
    /\ page_items = LoadedPages(files, dirs)
    /\ profiles = <<Inv, Doc>>
    /\ current_profile = 1
    /\ output_folder = OutFolder
    /\ export_btn_enabled = FALSE
    /\ loader = 0 /\ exporter = 0
    /\ tasks = <<>> /\ msgs = <<>>
    /\ ui_pc = Idle
    /\ last_call = NoCall

NextCatalog ==
    \/ select_all
    \/ clear_all
    \/ invert_selection
    \/ \E i \in DOMAIN page_items : mousePressEvent(i)
    \/ \E text \in FilterTexts : apply_filter(text)
    \/ \E i \in DOMAIN profiles : on_profile_selected(i)
    \/ apply_to_selected
    \/ batch_assign

SpecCatalog == InitCatalog /\ [][NextCatalog]_vars

\* the file the sentinel source_path "BATCH" of a batch job names, when the
\* working directory holds one
BatchFile == <<"BATCH">>

\* the catalog after both pages of a.pdf were given "inv" and b.pdf "doc"
AssignedPages ==
    LET pages == LoadedPages(SourceFiles, {InFolder})
    IN [i \in DOMAIN pages |->
          [pages[i] EXCEPT !.assigned_profile =
              IF pages[i].source_path = SourceA THEN "inv" ELSE "doc"]]

\* the application with pages loaded and assigned, no task started yet; the
\* profile shown in the index panel is either one
Init ==
    /\ \E batch \in BOOLEAN :
          files = save_profiles(
                      [f \in DOMAIN SourceFiles \cup (IF batch THEN {BatchFile} ELSE {}) |->
                          IF f = BatchFile THEN Document(BatchFile, 1) ELSE SourceFiles[f]],
                      <<Inv, Doc>>)
    /\ dirs = {InFolder, EmptyFolder}
    /\ page_items = AssignedPages
    /\ profiles = <<Inv, Doc>>
    /\ current_profile \in {1, 2}
    /\ output_folder = OutFolder
    /\ export_btn_enabled = update_export_button_state(page_items, profiles, output_folder)
    /\ loader = 0 /\ exporter = 0
    /\ tasks = <<>> /\ msgs = <<>>
    /\ ui_pc = Idle
    /\ last_call = NoCall

Next ==
    \/ select_all
    \/ load_from_profile_input
    \/ load_wait_returns
    \/ export_all_assigned
    \/ export_wait_returns
    \/ on_pages_loaded
    \/ on_load_error
    \/ cleanup_loader
    \/ on_export_complete
    \/ on_export_error
    \/ cleanup_exporter
    \/ \E t \in DOMAIN tasks : LoaderBegin(t)
    \/ \E t \in DOMAIN tasks : LoaderFind(t)
    \/ \E t \in DOMAIN tasks : LoaderAfterFind(t)
    \/ \E t \in DOMAIN tasks : LoaderLoop(t)
    \/ \E t \in DOMAIN tasks : LoaderOpen(t)
    \/ \E t \in DOMAIN tasks : LoaderLoaded(t)
    \/ \E t \in DOMAIN tasks : LoaderReport(t)
    \/ \E t \in DOMAIN tasks : ExporterBegin(t)
    \/ \E t \in DOMAIN tasks : ExporterValidate(t)
    \/ \E t \in DOMAIN tasks : ExporterAfterValidate(t)
    \/ \E t \in DOMAIN tasks : ExporterLoop(t)
    \/ \E t \in DOMAIN tasks : ExporterExport(t)
    \/ \E t \in DOMAIN tasks : ExporterExported(t)
    \/ \E t \in DOMAIN tasks : ExporterReport(t)
    \/ \E t \in DOMAIN tasks : Finally(t)

Spec == Init /\ [][Next]_vars

\* the field values typed into the current profile's editors
FieldValues == {<<"acme">>, <<"bolt">>, <<"acme", "_", "1">>}

\* the documents earlier exports can have left in the output folder
EarlierOutputs == {OutFolder \o <<"/", "acme", ".pdf">>,
                   OutFolder \o <<"/", "acme", "_", "1", ".pdf">>}

\* the files of the input folder and the documents left in the output folder
WithOutputs(left) ==
    [f \in DOMAIN SourceFiles \cup left |->
        IF f \in left THEN Document(f, 1) ELSE SourceFiles[f]]

\* the catalog of a completed load of InFolder with assigned_profile set as
\* chosen, page by page
ChosenPages(chosen) ==
    [i \in DOMAIN chosen |->
        [LoadedPages(SourceFiles, {InFolder})[i] EXCEPT !.assigned_profile = chosen[i]]]

\* the export task started when the pages given "inv" were the only assigned
\* pages of the catalog
EarlierExport(items) ==
    NewTask("export", <<>>,
            BuildJobs(SelectSeq(items, LAMBDA item : item.assigned_profile = "inv"),
                      <<Inv, Doc>>, <<>>, SourceFiles, {InFolder}).jobs)

\* the application with pages loaded and some of them assigned; the output
\* folder of the application set or not; no export started yet, or one
\* started earlier and still running; the output folder holds documents of
\* earlier exports or does not exist yet
InitBuild ==
    /\ \E left \in SUBSET EarlierOutputs :
          /\ files = save_profiles(WithOutputs(left), <<Inv, Doc>>)
          /\ dirs = {InFolder} \cup (IF left = {} THEN {} ELSE {OutFolder})
    /\ \E chosen \in [DOMAIN LoadedPages(SourceFiles, {InFolder}) -> {None, "inv", "doc"}] :
          page_items = ChosenPages(chosen)
    /\ profiles = <<Inv, Doc>>
    /\ current_profile = 1
    /\ output_folder \in {<<>>, OutFolder}
    /\ export_btn_enabled = update_export_button_state(page_items, profiles, output_folder)
    /\ loader = 0
    /\ \/ exporter = 0 /\ tasks = <<>>
       \/ /\ \E i \in DOMAIN page_items : page_items[i].assigned_profile = "inv"
          /\ exporter = 1 /\ tasks = <<EarlierExport(page_items)>>
    /\ msgs = <<>>
    /\ ui_pc = Idle
    /\ last_call = NoCall

NextBuild ==
    \/ \E i \in DOMAIN profiles : on_profile_selected(i)
    \/ \E k \in {1}, value \in FieldValues : on_value_changed(k, value)
    \/ delete_profile
    \/ export_all_assigned

SpecBuild == InitBuild /\ [][NextBuild]_vars

(***************************************************************************)
(* One background task run from its construction to its end               *)
(***************************************************************************)
\* jobs in the list handed to PDFExporter
MaxJobs == 3

BadFolder == <<"/", "bad">>
SourceC == <<"/", "bad", "/", "c", ".pdf">>
MissingSource == <<"/", "in", "/", "gone", ".pdf">>
OutX == <<"/", "out", "/", "x", ".pdf">>
OutY == <<"/", "alt", "/", "y", ".pdf">>

\* a file named *.pdf that fitz.open rejects
Corrupt == [pdf |-> FALSE, pages |-> <<>>]

\* the ExportJob dataclass: one page of one source
SinglePageJob(source_path, page_number, output_path) ==
    [source_path |-> source_path, page_number |-> page_number, output_path |-> output_path]

JobChoices == {SinglePageJob(s, 0, o) : s \in {SourceA, SourceB, MissingSource},
                                        o \in {OutX, OutY}}

JobLists == UNION {[1..n -> JobChoices] : n \in 1..MaxJobs}

\* PDFLoader.stop / PDFExporter.stop, called from the UI thread while the
\* task runs
request_stop(t) ==
    /\ isRunning(tasks[t]) /\ ~tasks[t].stop_requested
    /\ tasks' = [tasks EXCEPT ![t] = stop(@)]
    /\ UNCHANGED <<msgs, files, dirs>> /\ WorkerFrame

\* a PDFLoader constructed on a folder, or a PDFExporter constructed on a job
\* list, and started; b.pdf is readable or not, c.pdf is not
InitTask ==
    /\ \E readable \in BOOLEAN :
          files = save_profiles(
                      [f \in {SourceA, SourceB, SourceC} |->
                          IF f = SourceA THEN Document(SourceA, PagesInA)
                          ELSE IF f = SourceB /\ readable THEN Document(SourceB, 1)
                          ELSE Corrupt],
                      <<Inv, Doc>>)
    /\ dirs = {InFolder, EmptyFolder, BadFolder}
    /\ page_items = <<>>
    /\ profiles = <<Inv, Doc>>
    /\ current_profile = 1
    /\ output_folder = OutFolder
    /\ export_btn_enabled = FALSE
    /\ \/ /\ \E folder_path \in {InFolder, EmptyFolder, BadFolder} :
                tasks = <<NewTask("load", folder_path, <<>>)>>
          /\ loader = 1 /\ exporter = 0
       \/ /\ \E export_jobs \in JobLists :
                tasks = <<NewTask("export", <<>>, export_jobs)>>
          /\ loader = 0 /\ exporter = 1
    /\ msgs = <<>>
    /\ ui_pc = Idle
    /\ last_call = NoCall

NextTask ==
    \/ \E t \in DOMAIN tasks : request_stop(t)
    \/ \E t \in DOMAIN tasks : LoaderBegin(t)
    \/ \E t \in DOMAIN tasks : LoaderFind(t)
    \/ \E t \in DOMAIN tasks : LoaderAfterFind(t)
    \/ \E t \in DOMAIN tasks : LoaderLoop(t)
    \/ \E t \in DOMAIN tasks : LoaderOpen(t)
    \/ \E t \in DOMAIN tasks : LoaderLoaded(t)
    \/ \E t \in DOMAIN tasks : LoaderReport(t)
    \/ \E t \in DOMAIN tasks : ExporterBegin(t)
    \/ \E t \in DOMAIN tasks : ExporterValidate(t)
    \/ \E t \in DOMAIN tasks : ExporterAfterValidate(t)
    \/ \E t \in DOMAIN tasks : ExporterLoop(t)
    \/ \E t \in DOMAIN tasks : ExporterExport(t)
    \/ \E t \in DOMAIN tasks : ExporterExported(t)
    \/ \E t \in DOMAIN tasks : ExporterReport(t)
    \/ \E t \in DOMAIN tasks : Raises(t)
    \/ \E t \in DOMAIN tasks : Except(t)
    \/ \E t \in DOMAIN tasks : Finally(t)

SpecTask == InitTask /\ [][NextTask]_vars

(***************************************************************************)
(* Output path generation on profiles of any pattern and fields           *)
(***************************************************************************)
\* pieces in an output pattern
MaxPattern == 3

\* what an output pattern is typed from: field tokens, a token of no field,
\* single braces, a separator and plain text
PatternPieces == {<<"{", "vendor", "}">>, <<"{", "year", "}">>, <<"{", "missing", "}">>,
                  <<"{">>, <<"}">>, <<"/">>, <<"x">>}

RECURSIVE Flatten(_)
Flatten(ss) == IF ss = <<>> THEN <<>> ELSE Head(ss) \o Flatten(Tail(ss))

Patterns == {Flatten(ps) : ps \in UNION {[1..n -> PatternPieces] : n \in 0..MaxPattern}}

\* the fields of a profile: none, one field of any name and value, or that
\* field followed by a second one
FieldLists ==
    LET names == {<<"Vendor">>, <<"Year">>, <<"vendor">>,
                  <<"Folder", " ", "Name">>, <<"File", " ", "Name">>}
        values == {<<"Acme">>, <<" ", "Acme", " ">>, <<>>, <<" ">>}
        first == {IndexField(n, v, FALSE) : n \in names, v \in values}
        second == {IndexField(<<"Year">>, <<"2024">>, FALSE),
                   IndexField(<<"vendor">>, <<"bolt">>, FALSE)}
    IN {<<>>} \cup {<<f>> : f \in first} \cup {<<f, g>> : f \in first, g \in second}

\* IndexPanel.update_output_preview, the slot of field_changed; what the
\* call of generate_output_path did is kept: the exception that left it if
\* any, the path it returned, and the replacements it built
update_output_preview ==
    /\ ui_pc.pc = "idle"
    /\ current_profile # 0
    /\ LET base_path == IF profiles[current_profile].output_folder # <<>>
                        THEN profiles[current_profile].output_folder
                        ELSE <<"/", "output">>
       IN \E generated \in {generate_output_path(profiles[current_profile], base_path)} :
             last_call' = [Call("generate_output_path") EXCEPT
                              !.arg = base_path,
                              !.status = generated.err,
                              !.ret = generated.out,
                              !.marked = Replacements(profiles[current_profile])]
    /\ UNCHANGED <<page_items, files, dirs, profiles, current_profile, output_folder,
                   export_btn_enabled, loader, exporter, tasks, msgs, ui_pc>>

\* the index panel showing one profile, of any pattern and fields, with an
\* output folder of its own or none
InitPath ==
    /\ \E fields \in FieldLists, output_pattern \in Patterns, out \in {<<>>, OutFolder} :
          profiles = <<IndexProfile("inv", fields, output_pattern, InFolder, out)>>
    /\ files = save_profiles(SourceFiles, profiles)
    /\ dirs = {InFolder}
    /\ page_items = <<>>
    /\ current_profile = 1
    /\ output_folder = OutFolder
    /\ export_btn_enabled = FALSE
    /\ loader = 0 /\ exporter = 0
    /\ tasks = <<>> /\ msgs = <<>>
    /\ ui_pc = Idle
    /\ last_call = NoCall

NextPath == update_output_preview

SpecPath == InitPath /\ [][NextPath]_vars

(***************************************************************************)
(* The profile store from the start of the application on                 *)
(***************************************************************************)
\* profiles in the store when New Profile is pressed
MaxProfiles == 3

\* a variant of the load that skips the dictionaries it cannot convert
\* instead of giving the whole list up
ReadProfiles_skips_unreadable(fs) ==
    LET data == fs[ProfilesFile].data
        named(d) == /\ "name" \in DOMAIN d
                    /\ \A i \in DOMAIN Get(d, "fields", <<>>) : "name" \in DOMAIN d.fields[i]
        readable == SelectSeq(data, named)
    IN IF fs[ProfilesFile].json
       THEN [i \in DOMAIN readable |-> from_dict(readable[i])]
       ELSE <<>>

\* the try block of ProfileManager.load_profiles: the profiles read, <<>>
\* when the file is no JSON document or an entry raises KeyError
ReadProfiles(fs) ==
    LET data == fs[ProfilesFile].data
        named(d) == /\ "name" \in DOMAIN d
                    /\ \A i \in DOMAIN Get(d, "fields", <<>>) : "name" \in DOMAIN d.fields[i]
    IN IF fs[ProfilesFile].json /\ \A i \in DOMAIN data : named(data[i])
       THEN [i \in DOMAIN data |-> from_dict(data[i])]
       ELSE <<>>

\* ProfileManager.create_default_profiles: [profiles, files] after the three
\* profiles are appended and saved
create_default_profiles(fs, store) ==
    LET Field(name, value, placeholder, required) ==
            [IndexField(name, value, required) EXCEPT !.placeholder = placeholder]
        Profile(name, description, output_pattern, fields) ==
            [IndexProfile(name, fields, output_pattern, <<>>, <<>>) EXCEPT
                !.description = description]
        file_name == <<"{", "file", "_", "name", "}">>
        basic == Profile("Basic Document", "Simple document indexing",
                         <<"{", "document", "_", "type", "}", "/">> \o file_name,
                         <<Field(<<"Document", " ", "Type">>, <<>>,
                                 "e.g., contracts, invoices", FALSE),
                           Field(<<"File", " ", "Name">>, <<>>, "Output filename", TRUE)>>)
        invoice == Profile("Invoice Processing", "For processing invoices",
                           <<"{", "vendor", "}", "/", "{", "year", "}", "/",
                             "{", "month", "}", "/", "{", "invoice", "_", "number", "}">>,
                           <<Field(<<"Vendor">>, <<>>, "Vendor name", TRUE),
                             Field(<<"Invoice", " ", "Number">>, <<>>, "Invoice #", TRUE),
                             Field(<<"Year">>, <<>>, "2024", TRUE),
                             Field(<<"Month">>, <<>>, "01-12", TRUE)>>)
        contract == Profile("Contract Management", "For organizing contracts",
                            <<"{", "contract", "_", "type", "}", "/",
                              "{", "client", "}", "/">> \o file_name,
                            <<Field(<<"Contract", " ", "Type">>,
                                    <<"Service", " ", "Agreement">>, "Contract type", FALSE),
                              Field(<<"Client">>, <<>>, "Client name", TRUE),
                              Field(<<"File", " ", "Name">>, <<>>,
                                    "Contract filename", TRUE)>>)
        Saved(extended) == [profiles |-> extended, files |-> save_profiles(fs, extended)]
    IN Saved(store \o <<basic, invoice, contract>>)

\* ProfileManager.__init__ -> load_profiles, inside IndexPanel.__init__;
\* refresh_profiles then shows the first profile
load_profiles ==
    /\ ui_pc.pc = "start"
    /\ LET read == IF ProfilesFile \in DOMAIN files THEN ReadProfiles(files) ELSE <<>>
           seeded == create_default_profiles(files, read)
       IN IF read = <<>>
          THEN profiles' = seeded.profiles /\ files' = seeded.files
          ELSE profiles' = read /\ files' = files
    /\ current_profile' = 1
    /\ ui_pc' = Idle
    /\ UNCHANGED <<page_items, dirs, output_folder, export_btn_enabled, loader, exporter,
                   tasks, msgs, last_call>>

\* IndexPanel.new_profile with the dialog accepted on profile: add_profile,
\* refresh_profiles, and the combo box set to the new name
new_profile(profile) ==
    /\ ui_pc.pc = "idle"
    /\ Len(profiles) < MaxProfiles
    /\ profiles' = Append(profiles, profile)
    /\ files' = save_profiles(files, profiles')
    /\ current_profile' = get_profile(profiles', profile.name)
    /\ UNCHANGED <<page_items, dirs, output_folder, export_btn_enabled, loader, exporter,
                   tasks, msgs, ui_pc, last_call>>

\* IndexPanel.edit_profile: the dialog works on the profile of the store
\* itself.  ProfileEditor.add_field (of a name the profile does not have yet)
\* and remove_field (of that name) change it when they are pressed;
\* ProfileEditor.accept writes the texts of the dialog, left as they were
\* shown, into it; only after accept does edit_profile save.
edit_profile(pressed, accepted) ==
    /\ ui_pc.pc = "idle"
    /\ current_profile # 0
    /\ LET original == get_profile(profiles, profiles[current_profile].name)
           fields == profiles[original].fields
           has_extra == \E i \in DOMAIN fields : fields[i].name = <<"Extra">>
           edited == IF pressed = "add_field"
                     THEN Append(fields, IndexField(<<"Extra">>, <<>>, FALSE))
                     ELSE IF pressed = "remove_field"
                          THEN SelectSeq(fields, LAMBDA f : f.name # <<"Extra">>)
                     ELSE fields
       IN /\ pressed = "add_field" => ~has_extra
          /\ pressed = "remove_field" => has_extra
          /\ profiles' = [profiles EXCEPT ![original].fields = edited]
          /\ files' = IF accepted THEN save_profiles(files, profiles') ELSE files
          /\ current_profile' = IF accepted THEN original ELSE current_profile
    /\ UNCHANGED <<page_items, dirs, output_folder, export_btn_enabled, loader, exporter,
                   tasks, msgs, ui_pc, last_call>>

\* the dictionaries json.load returns for a profile saved with every
\* attribute of its first field at its default or not
RichDicts ==
    LET fields == {[name |-> <<"Vendor">>, value |-> value, placeholder |-> placeholder,
                    required |-> required, field_type |-> field_type,
                    options |-> options] :
                      value \in {<<>>, <<"acme">>}, placeholder \in {"", "Vendor name"},
                      required \in BOOLEAN, field_type \in {"text", "dropdown"},
                      options \in {<<>>, <<"acme", "bolt">>}}
        year == [name |-> <<"Year">>, value |-> <<"2024">>, placeholder |-> "",
                 required |-> TRUE, field_type |-> "text", options |-> <<>>]
    IN {[name |-> "rich", description |-> description, output_pattern |-> VendorPattern,
         input_folder |-> InFolder, output_folder |-> OutFolder,
         fields |-> <<f, year>>] :
           f \in fields, description \in {"", "For invoices"}}

\* what profiles.json holds when the application starts: it was written by
\* an earlier run, or edited by hand and then short of keys, or is no JSON
StoredChoices ==
    {JsonFile(FALSE, <<>>), JsonFile(TRUE, <<>>),
     save_profiles(<<>>, <<Inv, Doc>>)[ProfilesFile],
     JsonFile(TRUE, <<[name |-> "bare"]>>),
     JsonFile(TRUE, <<[name |-> "bare", fields |-> <<[name |-> <<"Vendor">>]>>]>>),
     JsonFile(TRUE, <<[description |-> "no name"]>>),
     JsonFile(TRUE, <<to_dict(Inv), [name |-> "doc", fields |-> <<[value |-> <<"bolt">>]>>]>>)}
    \cup {JsonFile(TRUE, <<d>>) : d \in RichDicts}

\* the application before the index panel is built; profiles.json is absent
\* or holds one of StoredChoices
InitStore ==
    /\ \/ files = SourceFiles
       \/ \E stored \in StoredChoices :
             files = [f \in DOMAIN SourceFiles \cup {ProfilesFile} |->
                         IF f = ProfilesFile THEN stored ELSE SourceFiles[f]]
    /\ dirs = {InFolder}
    /\ page_items = <<>>
    /\ profiles = <<>>
    /\ current_profile = 0
    /\ output_folder = <<>>
    /\ export_btn_enabled = FALSE
    /\ loader = 0 /\ exporter = 0
    /\ tasks = <<>> /\ msgs = <<>>
    /\ ui_pc = [Idle EXCEPT !.pc = "start"]
    /\ last_call = NoCall

NextStore ==
    \/ load_profiles
    \/ \E i \in DOMAIN profiles : on_profile_selected(i)
    \/ \E k \in {1} : on_value_changed(k, <<"acme">>)
    \/ new_profile(Doc)
    \/ delete_profile
    \/ \E pressed \in {"nothing", "add_field", "remove_field"}, accepted \in BOOLEAN :
          edit_profile(pressed, accepted)

SpecStore == InitStore /\ [][NextStore]_vars

(***************************************************************************)
(* Applying a profile whose fields are filled in or not                    *)
(***************************************************************************)
\* what the two field editors of the shown profile can hold
TypedValues == {<<>>, <<" ">>, <<"acme">>}

\* the application after a load of InFolder has completed and some pages
\* were ticked; the shown profile has a field Vendor and a field Year, each
\* required or not and filled in or not
InitApply ==
    /\ \E vendor \in TypedValues, year \in TypedValues, r1 \in BOOLEAN, r2 \in BOOLEAN :
          profiles = <<IndexProfile("inv", <<IndexField(<<"Vendor">>, vendor, r1),
                                             IndexField(<<"Year">>, year, r2)>>,
                                    VendorPattern, InFolder, OutFolder)>>
    /\ files = save_profiles(SourceFiles, profiles)
    /\ dirs = {InFolder}
    /\ \E ticked \in SUBSET DOMAIN LoadedPages(SourceFiles, {InFolder}) :
          page_items = [i \in DOMAIN LoadedPages(SourceFiles, {InFolder}) |->
                           set_selected(LoadedPages(SourceFiles, {InFolder})[i], i \in ticked)]
    /\ current_profile = 1
    /\ output_folder = OutFolder
    /\ export_btn_enabled = FALSE
    /\ loader = 0 /\ exporter = 0
    /\ tasks = <<>> /\ msgs = <<>>
    /\ ui_pc = Idle
    /\ last_call = NoCall

NextApply ==
    \/ select_all
    \/ \E k \in {1, 2}, value \in TypedValues : on_value_changed(k, value)
    \/ apply_to_selected
    \/ batch_assign

SpecApply == InitApply /\ [][NextApply]_vars

(***************************************************************************)
(* Shutdown of the application while tasks run                             *)
(***************************************************************************)
\* QThread.terminate followed by wait(500): the thread is killed where it is
terminate(task) == [task EXCEPT !.pc = "terminated"]

\* closeEvent, lines 364-372: the exporter is asked to stop and waited for,
\* or the close is accepted; ts is the tasks after the part on the loader
CloseExporter(ts) ==
    IF exporter # 0 /\ isRunning(ts[exporter])
    THEN /\ tasks' = [ts EXCEPT ![exporter] = stop(@)]
         /\ ui_pc' = [Idle EXCEPT !.pc = "close_wait_exporter"]
    ELSE /\ tasks' = ts
         /\ ui_pc' = [Idle EXCEPT !.pc = "closed"]

\* PDFExtractorApp.closeEvent up to its first wait(2000), or to its end
closeEvent ==
    /\ ui_pc.pc = "idle"
    /\ IF loader # 0 /\ isRunning(tasks[loader])
       THEN /\ tasks' = [tasks EXCEPT ![loader] = stop(@)]
            /\ ui_pc' = [Idle EXCEPT !.pc = "close_wait_loader"]
       ELSE CloseExporter(tasks)
    /\ UNCHANGED <<page_items, files, dirs, profiles, current_profile, output_folder,
                   export_btn_enabled, loader, exporter, msgs, last_call>>

\* closeEvent after self.loader.wait(2000): the thread has ended, or the two
\* seconds have passed and it is terminated; then the part on the exporter
close_loader_wait_returns ==
    /\ ui_pc.pc = "close_wait_loader"
    /\ loader' = 0
    /\ CloseExporter([tasks EXCEPT ![loader] = IF isRunning(@) THEN terminate(@) ELSE @])
    /\ UNCHANGED <<page_items, files, dirs, profiles, current_profile, output_folder,
                   export_btn_enabled, exporter, msgs, last_call>>

\* closeEvent after self.exporter.wait(2000), up to event.accept()
close_exporter_wait_returns ==
    /\ ui_pc.pc = "close_wait_exporter"
    /\ exporter' = 0
    /\ tasks' = [tasks EXCEPT ![exporter] = IF isRunning(@) THEN terminate(@) ELSE @]
    /\ ui_pc' = [Idle EXCEPT !.pc = "closed"]
    /\ UNCHANGED <<page_items, files, dirs, profiles, current_profile, output_folder,
                   export_btn_enabled, loader, msgs, last_call>>

\* the application of Spec with a window that can be closed; once the close
\* is accepted the process ends and nothing more happens
NextClose ==
    \/ ui_pc.pc # "closed" /\ Next
    \/ closeEvent
    \/ close_loader_wait_returns
    \/ close_exporter_wait_returns

SpecClose == Init /\ [][NextClose]_vars

(***************************************************************************)
(* Background task claims, checked under Spec                              *)
(***************************************************************************)
\* C1: at every moment at most one load task and at most one export task is
\* alive; a new task of a kind is not started until the previous one of that
\* kind has stopped, also when the previous one is inside a library call that
\* outlasts the bounded wait.
C1_OneTaskOfAKindAlive ==
    \A kind \in {"load", "export"} :
        Cardinality({t \in DOMAIN tasks : tasks[t].kind = kind /\ isRunning(tasks[t])}) <= 1

\* C2 as stated: once stop() has been requested on a task, the task starts no
\* further unit of work (no PDF file opened, no job exported) and emits no
\* completion report (pages_loaded / export_complete).
C2_NothingAfterStop ==
    [][\A t \in DOMAIN tasks :
          tasks[t].stop_requested =>
             /\ tasks'[t].units = tasks[t].units
             /\ tasks'[t].emitted # tasks[t].emitted =>
                   tasks'[t].emitted[Len(tasks'[t].emitted)]
                       \notin {"pages_loaded", "export_complete"}]_vars

\* C2 amended: once stop() has been requested, the next test of the flag the
\* task makes ends it as Cancelled: that step starts no unit of work, emits
\* nothing and writes nothing, so what the completed jobs wrote remains and the
\* later jobs are never attempted.  Only work whose test had passed before the
\* request still runs: at most one unit of work is started after the request,
\* and a task that ended Cancelled has emitted no completion report.
C2_StopEndsAtNextTest ==
    [][\A t \in DOMAIN tasks :
          (tasks[t].stop_requested /\ tasks'[t] # tasks[t]) =>
             /\ IF tasks[t].pc \in {"start", "after_find", "after_validate", "loop"}
                THEN /\ tasks'[t].pc = "finally" /\ tasks'[t].outcome = "Cancelled"
                     /\ tasks'[t].units = tasks[t].units
                     /\ tasks'[t].emitted = tasks[t].emitted
                     /\ files' = files /\ dirs' = dirs /\ msgs' = msgs
                ELSE Cardinality({k \in DOMAIN tasks'[t].units :
                                     tasks'[t].units[k].stop_requested}) <= 1
             /\ tasks'[t].outcome = "Cancelled" =>
                   \A k \in DOMAIN tasks'[t].emitted :
                      tasks'[t].emitted[k] \notin {"pages_loaded", "export_complete"}]_vars

\* C2 witness: an export task of two jobs was asked to stop after job 1 was
\* exported and ended Cancelled with job 1's output in place and job 2 never
\* attempted
C2_Witness ==
    \E t \in DOMAIN tasks :
       /\ tasks[t].kind = "export" /\ tasks[t].pc = "done"
       /\ tasks[t].stop_requested /\ tasks[t].outcome = "Cancelled"
       /\ Len(tasks[t].export_jobs) >= 2
       /\ Len(tasks[t].units) = 1 /\ Len(tasks[t].results) = 1
       /\ tasks[t].results[1].success
       /\ tasks[t].export_jobs[1].output_path \in DOMAIN files
       /\ "export_complete" \notin Range(tasks[t].emitted)

\* C3: an export task built from at least one job, whose pages' source PDFs
\* all exist, whose output directories can be created and which is not asked
\* to stop, passes validation (the sentinel source_path does not make it
\* fail), and when it has ended it has attempted every job and emitted a
\* completion report with one result per job.
C3_BuiltJobsAreExported ==
    \A t \in DOMAIN tasks :
       (/\ tasks[t].kind = "export" /\ ~tasks[t].stop_requested
        /\ tasks[t].export_jobs # <<>>
        /\ \A k \in DOMAIN tasks[t].export_jobs :
              \A page \in Range(tasks[t].export_jobs[k].pages_group) :
                 page.source_path \in DOMAIN files
        /\ \A e \in Range(tasks[t].errors) : e.error # "Cannot create output directory")
       => /\ tasks[t].errors = <<>>
          /\ tasks[t].pc = "done" =>
                /\ "export_complete" \in Range(tasks[t].emitted)
                /\ Len(tasks[t].results) = Len(tasks[t].export_jobs)
                /\ Len(tasks[t].units) = Len(tasks[t].export_jobs)

\* C4: a successful export of a job that carries a pages_group leaves at
\* output_path one PDF holding exactly the pages of the group, each from its
\* own source_path and page_number, in group order.
C4_GroupJobWritesItsPages ==
    [][\A t \in DOMAIN tasks :
          (/\ Len(tasks'[t].results) > Len(tasks[t].results)
           /\ tasks'[t].results[Len(tasks'[t].results)].success)
          => LET job == tasks[t].export_jobs[tasks[t].i]
             IN /\ job.output_path \in DOMAIN files'
                /\ files'[job.output_path].pages = job.pages_group]_vars

(***************************************************************************)
(* Page catalog claims, checked under SpecCatalog                          *)
(***************************************************************************)
\* the step is a call of PageListWidget.assign_profile_to_selected
AssignStep ==
    /\ last_call'.tick # last_call.tick
    /\ last_call'.op = "apply_profile_to_selected"
    /\ last_call'.status = "assigned"

\* C5: when an assign_profile_to_selected call leaves every page of a source
\* it touched with an assigned profile, the source-completion side effect
\* (mark_source_as_processed) is performed for that source in the same call.
C5_CompletionInSameCall ==
    [][AssignStep =>
         \A i \in DOMAIN page_items :
            (/\ is_selected(page_items[i])
             /\ \A j \in DOMAIN page_items :
                   page_items[j].source_path = page_items[i].source_path
                       => page_items'[j].assigned_profile # None)
            => page_items[i].source_path \in Range(last_call'.marked)]_vars

\* C6: assign_profile_to_selected sets assigned_profile on exactly the pages
\* selected at call time, visible or hidden, leaves the assigned_profile of
\* every other page unchanged, clears the selected flag of the pages it
\* assigned, returns the number of pages selected at call time and keeps the
\* catalog's pages.
C6_AssignsExactlySelected ==
    [][AssignStep =>
         /\ Len(page_items') = Len(page_items)
         /\ \A i \in DOMAIN page_items :
               /\ page_items'[i].page_number = page_items[i].page_number
               /\ IF page_items[i].selected
                  THEN /\ page_items'[i].assigned_profile = last_call'.arg
                       /\ ~page_items'[i].selected
                  ELSE page_items'[i].assigned_profile = page_items[i].assigned_profile
         /\ last_call'.ret = Cardinality({i \in DOMAIN page_items : page_items[i].selected})]_vars

\* C6 witness: a call has assigned at least two pages, one of them hidden by
\* the filter, and has left another page without a profile
C6_Witness ==
    /\ last_call.op = "apply_profile_to_selected" /\ last_call.status = "assigned"
    /\ last_call.ret >= 2
    /\ \E i \in DOMAIN page_items :
          page_items[i].hidden /\ page_items[i].assigned_profile = last_call.arg
    /\ \E i \in DOMAIN page_items : page_items[i].assigned_profile = None

\* C7: no page has both an assigned profile and selected = true.
C7_AssignedNeverSelected ==
    \A i \in DOMAIN page_items :
        ~(page_items[i].assigned_profile # None /\ page_items[i].selected)

(***************************************************************************)
(* Export job building claims, checked under SpecBuild                     *)
(***************************************************************************)
\* the step is a call of PDFExtractorApp.export_all_assigned
ExportStep ==
    /\ last_call'.tick # last_call.tick
    /\ last_call'.op = "export_all_assigned"

\* C8: job building groups the pages by resolved output path: every assigned
\* page whose profile exists is in exactly one job's pages_group, once; two
\* such pages are in the same job exactly when their profiles resolve to the
\* same path; no other page is in a job; and there are as many jobs as
\* distinct resolved paths.
C8_GroupedByResolvedPath ==
    [][(ExportStep /\ last_call'.status = "ok") =>
          LET jobs == last_call'.jobs
              Resolvable == {i \in DOMAIN page_items :
                                \E q \in Range(profiles) :
                                   q.name = page_items[i].assigned_profile}
              Path(i) == ResolvedPath(
                             profiles[get_profile(profiles, page_items[i].assigned_profile)],
                             output_folder).output_path
              Page(i) == [source_path |-> page_items[i].source_path,
                          page_number |-> page_items[i].page_number]
              Places(i) == {jk \in (DOMAIN jobs) \X (DOMAIN page_items) :
                               /\ jk[2] \in DOMAIN jobs[jk[1]].pages_group
                               /\ jobs[jk[1]].pages_group[jk[2]] = Page(i)}
              JobOf(i) == CHOOSE j \in DOMAIN jobs : \E jk \in Places(i) : jk[1] = j
          IN /\ \A i \in Resolvable : Cardinality(Places(i)) = 1
             /\ \A i1, i2 \in Resolvable : (Path(i1) = Path(i2)) <=> (JobOf(i1) = JobOf(i2))
             /\ \A j \in DOMAIN jobs : \A k \in DOMAIN jobs[j].pages_group :
                   \E i \in Resolvable : Page(i) = jobs[j].pages_group[k]
             /\ Len(jobs) = Cardinality({Path(i) : i \in Resolvable})]_vars

\* C8 witness: a call has built two jobs, one of them for several pages
C8_Witness ==
    /\ last_call.op = "export_all_assigned" /\ last_call.status = "ok"
    /\ Len(last_call.jobs) = 2
    /\ \E j \in DOMAIN last_call.jobs : Len(last_call.jobs[j].pages_group) >= 2

\* C9: when some assigned page's profile exists and neither that profile's
\* output_folder nor the application's output folder is set,
\* export_all_assigned ends with the "no output folder" warning before any
\* I/O: no job is built, no export task is started, a running export task is
\* not asked to stop, and no file or directory is created, whatever the other
\* pages resolve to.
C9_NoOutputFolderFailsFirst ==
    [][(/\ ExportStep
        /\ output_folder = <<>>
        /\ \E i \in DOMAIN page_items : \E q \in Range(profiles) :
              q.name = page_items[i].assigned_profile /\ q.output_folder = <<>>)
       => /\ last_call'.status = "no_output_folder"
          /\ last_call'.jobs = <<>>
          /\ UNCHANGED <<tasks, exporter, files, dirs, msgs, ui_pc, page_items>>]_vars

\* C9 witness: the call ended with the warning while an export task was
\* running and another page had a usable output folder, and the running task
\* has not been asked to stop
C9_Witness ==
    /\ last_call.op = "export_all_assigned" /\ last_call.status = "no_output_folder"
    /\ exporter # 0 /\ isRunning(tasks[exporter]) /\ ~tasks[exporter].stop_requested
    /\ Len(tasks) = 1
    /\ \E i \in DOMAIN page_items : \E q \in Range(profiles) :
          q.name = page_items[i].assigned_profile /\ q.output_folder # <<>>

\* C10: a page whose assigned_profile names no profile of the store does not
\* make job building fail: it is in no job, the jobs are those of the catalog
\* without such pages, and when there are any the export task gets them;
\* deleting a profile leaves every page's assigned_profile as it was.
C10_MissingProfileIsSkipped ==
    [][/\ ExportStep =>
             LET Missing(item) == /\ Truthy(item.assigned_profile)
                                  /\ ~\E q \in Range(profiles) : q.name = item.assigned_profile
                 rest == SelectSeq(page_items, LAMBDA item : ~Missing(item))
                 jobs == last_call'.jobs
             IN (\E i \in DOMAIN page_items : Missing(page_items[i])) =>
                   /\ last_call'.status # "raise"
                   /\ \A j \in DOMAIN jobs : \A k \in DOMAIN jobs[j].pages_group :
                         \A i \in DOMAIN page_items :
                            (/\ page_items[i].source_path = jobs[j].pages_group[k].source_path
                             /\ page_items[i].page_number = jobs[j].pages_group[k].page_number)
                            => ~Missing(page_items[i])
                   /\ \E wanted \in {BuildJobs(rest, profiles, output_folder, files, dirs)} :
                         /\ jobs = wanted.jobs
                         /\ wanted.status = "ok" =>
                               /\ last_call'.status = "ok"
                               /\ \/ ui_pc'.pc = "export_wait" /\ ui_pc'.jobs = jobs
                                  \/ /\ Len(tasks') = Len(tasks) + 1
                                     /\ tasks'[Len(tasks')].export_jobs = jobs
                                     /\ exporter' = Len(tasks')
       /\ Len(profiles') < Len(profiles) => page_items' = page_items]_vars

\* C10 witness: a call has built jobs while a page still carried the name of
\* a deleted profile, and that page is in none of them
C10_Witness ==
    /\ last_call.op = "export_all_assigned" /\ last_call.status = "ok"
    /\ last_call.jobs # <<>>
    /\ Len(profiles) = 1
    /\ \E i \in DOMAIN page_items :
          /\ Truthy(page_items[i].assigned_profile)
          /\ page_items[i].assigned_profile # profiles[1].name
          /\ \A j \in DOMAIN last_call.jobs :
                \A k \in DOMAIN last_call.jobs[j].pages_group :
                   last_call.jobs[j].pages_group[k].source_path # page_items[i].source_path
    /\ \E i \in DOMAIN page_items : page_items[i].assigned_profile = profiles[1].name

(***************************************************************************)
(* Task claims, checked under SpecTask                                     *)
(***************************************************************************)
\* C11: the export task validates every job before exporting any: the
\* validation stage reports one error per failing check (source missing,
\* output directory not creatable) of every job, not only the first; when the
\* error list is non-empty the task ends as Failed with the errors as its one
\* message and no job is exported; a job is exported only after validation
\* found no error.
C11_ValidationCollectsAll ==
    [][\A t \in DOMAIN tasks :
          /\ (tasks[t].kind = "export" /\ tasks[t].pc = "validate"
               /\ tasks'[t].pc \notin {"validate", "except"}) =>
                LET jobs == tasks[t].export_jobs
                    errs == tasks'[t].errors
                    Reported(k, error) ==
                        Cardinality({e \in DOMAIN errs :
                                        errs[e] = [job |-> k, error |-> error]})
                IN /\ \A k \in DOMAIN jobs :
                         /\ Reported(k, "Source file not found") =
                               IF jobs[k].source_path \in DOMAIN files THEN 0 ELSE 1
                         /\ Reported(k, "Cannot create output directory") =
                               IF PathParent(jobs[k].output_path) \in dirs' THEN 0 ELSE 1
                   /\ \A e \in DOMAIN errs : errs[e].job \in DOMAIN jobs
                   /\ \A e1, e2 \in DOMAIN errs : e1 < e2 => errs[e1].job <= errs[e2].job
                   /\ IF errs = <<>>
                      THEN tasks'[t].pc = "after_validate" /\ msgs' = msgs
                      ELSE /\ tasks'[t].pc = "finally" /\ tasks'[t].outcome = "Failed"
                           /\ msgs' = Append(msgs, [task |-> t, sig |-> "error",
                                                    payload |-> errs])
          /\ tasks'[t].errors # <<>> =>
                /\ tasks'[t].units = <<>> /\ tasks'[t].results = <<>>
                /\ \A k \in DOMAIN tasks'[t].export_jobs :
                      tasks'[t].export_jobs[k].output_path \notin DOMAIN files'
                /\ "export_complete" \notin Range(tasks'[t].emitted)
          /\ tasks'[t].units # <<>> =>
                /\ tasks'[t].pc \notin {"start", "validate", "after_validate", "except"}
                /\ tasks'[t].errors = <<>>]_vars

\* C11 witness: an export of three jobs of which only job 2 has a missing
\* source has ended with exactly one error, naming job 2, and no job run
C11_Witness ==
    \E t \in DOMAIN tasks :
       /\ tasks[t].kind = "export" /\ tasks[t].pc = "done"
       /\ Len(tasks[t].export_jobs) = 3
       /\ \A k \in 1..3 : tasks[t].export_jobs[k].source_path \notin DOMAIN files <=> k = 2
       /\ tasks[t].errors = <<[job |-> 2, error |-> "Source file not found"]>>
       /\ tasks[t].outcome = "Failed"
       /\ tasks[t].units = <<>>

\* C12: an export task that passed validation and was not asked to stop has,
\* when it has ended, attempted every job exactly once in list order whatever
\* the earlier jobs' results were, and emitted one completion report holding
\* one result per job in job order; successes and failures add up to the
\* number of jobs.
C12_EveryJobGetsItsResult ==
    \A t \in DOMAIN tasks :
       (/\ tasks[t].kind = "export" /\ tasks[t].pc = "done"
        /\ ~tasks[t].stop_requested
        /\ "error" \notin Range(tasks[t].emitted))
       => LET jobs == tasks[t].export_jobs
              results == tasks[t].results
              reports == {m \in DOMAIN msgs : msgs[m].task = t
                                              /\ msgs[m].sig = "export_complete"}
          IN /\ [u \in DOMAIN tasks[t].units |-> tasks[t].units[u].unit]
                   = [k \in DOMAIN jobs |-> k]
             /\ [r \in DOMAIN results |-> results[r].job] = [k \in DOMAIN jobs |-> k]
             /\ Cardinality({r \in DOMAIN results : results[r].success})
                   + Cardinality({r \in DOMAIN results : ~results[r].success}) = Len(jobs)
             /\ Cardinality(reports) = 1
             /\ \A m \in reports : msgs[m].payload = results
             /\ tasks[t].outcome = "Completed"

\* C12 witness: a batch of three jobs has ended with job 1 failed and the
\* jobs after it attempted, job 2 with success
C12_Witness ==
    \E t \in DOMAIN tasks :
       /\ tasks[t].kind = "export" /\ tasks[t].pc = "done"
       /\ ~tasks[t].stop_requested
       /\ Len(tasks[t].export_jobs) = 3 /\ Len(tasks[t].results) = 3
       /\ ~tasks[t].results[1].success /\ tasks[t].results[2].success
       /\ "export_complete" \in Range(tasks[t].emitted)

\* how many times the task has emitted signal sig
Emitted(task, sig) == Cardinality({k \in DOMAIN task.emitted : task.emitted[k] = sig})

\* the run of a task as its signals show it: finished is emitted exactly once,
\* as the last signal, when the run ends and not before; at most one
\* completion report or error is emitted, never both; a run that has ended
\* does not resume
RunLifecycle ==
    \A t \in DOMAIN tasks :
       LET task == tasks'[t]
           reports == Emitted(task, "pages_loaded") + Emitted(task, "export_complete")
       IN /\ Emitted(task, "finished") = IF task.pc = "done" THEN 1 ELSE 0
          /\ task.pc = "done" => task.emitted[Len(task.emitted)] = "finished"
          /\ reports + Emitted(task, "error") <= 1
          /\ task.pc = "done" =>
                /\ task.outcome = "Completed" <=> reports = 1
                /\ task.outcome = "Failed" <=> Emitted(task, "error") = 1
                /\ task.outcome \in {"Cancelled", "Swallowed"} <=>
                      reports + Emitted(task, "error") = 0
          /\ tasks[t].pc = "start" => tasks[t].emitted = <<>>
          /\ tasks[t].pc = "done" => task = tasks[t]

\* C13 as stated: every started run goes Idle -> Running -> exactly one of
\* Completed, Failed, Cancelled, emits finished exactly once and last, never
\* both a completion report and an error, at most one error, and an
\* exception raised inside run() is turned into a single error message
\* (Failed).
C13_ExceptionAlwaysReported ==
    [][/\ RunLifecycle
       /\ \A t \in DOMAIN tasks :
             (tasks[t].pc = "except" /\ tasks'[t].pc # "except") =>
                /\ tasks'[t].emitted = Append(tasks[t].emitted, "error")
                /\ tasks'[t].outcome = "Failed"]_vars

\* C13 amended: every started run goes Idle -> Running -> exactly one of
\* Completed, Failed, Cancelled, emits finished exactly once and last, never
\* both a completion report and an error, at most one error; an exception
\* raised inside run() never propagates, and it is turned into a single error
\* message (Failed) only when no stop has been requested by the time the
\* except clause runs: after a stop request the exception is swallowed and the
\* run ends as a cancelled one does, with finished as its only signal to the
\* UI.
C13_ExceptionReportedUnlessStopped ==
    [][/\ RunLifecycle
       /\ \A t \in DOMAIN tasks :
             (tasks[t].pc = "except" /\ tasks'[t].pc # "except") =>
                /\ tasks'[t].pc = "finally"
                /\ IF tasks[t].stop_requested
                   THEN /\ tasks'[t].emitted = tasks[t].emitted /\ msgs' = msgs
                        /\ tasks'[t].outcome = "Swallowed"
                   ELSE /\ tasks'[t].emitted = Append(tasks[t].emitted, "error")
                        /\ Len(msgs') = Len(msgs) + 1
                        /\ SubSeq(msgs', 1, Len(msgs)) = msgs
                        /\ msgs'[Len(msgs')].task = t /\ msgs'[Len(msgs')].sig = "error"
                        /\ tasks'[t].outcome = "Failed"]_vars

\* C13 witness: a run in which an exception was raised after a stop request
\* has ended with no error and no report, finished being its last signal
C13_Witness ==
    \E t \in DOMAIN tasks :
       /\ tasks[t].pc = "done" /\ tasks[t].outcome = "Swallowed"
       /\ tasks[t].stop_requested
       /\ Emitted(tasks[t], "error") = 0
       /\ tasks[t].emitted[Len(tasks[t].emitted)] = "finished"

\* C14: a load task that finds no PDF file in its folder ends as Failed with
\* the message "No PDF files found in the selected folder."; one whose files
\* yield no page ends as Failed with the message "No valid pages found in PDF
\* files."; neither emits pages_loaded.  When only some files fail to open,
\* the load goes on and reports exactly the pages of every readable file.
C14_LoadFailuresAndPartialLoads ==
    [][\A t \in DOMAIN tasks :
          tasks[t].kind = "load" =>
             LET found == {f \in DOMAIN files :
                              /\ tasks[t].folder_path \in dirs
                              /\ PathParent(f) = tasks[t].folder_path
                              /\ EndsWithPdf(PathName(f))}
                 readable == UNION {{PDFPageData(f, n - 1) : n \in 1..Len(files[f].pages)} :
                                       f \in {g \in found : files[g].pdf}}
                 Failed(message) ==
                     /\ tasks'[t].pc = "finally" /\ tasks'[t].outcome = "Failed"
                     /\ msgs' = Append(msgs, [task |-> t, sig |-> "error",
                                              payload |-> message])
             IN /\ (tasks[t].pc = "find" /\ tasks'[t].pc \notin {"find", "except"}) =>
                      IF found = {}
                      THEN Failed("No PDF files found in the selected folder.")
                      ELSE tasks'[t].pc = "after_find" /\ msgs' = msgs
                /\ (tasks[t].pc = "report" /\ tasks'[t].pc # "report") =>
                      IF readable = {}
                      THEN Failed("No valid pages found in PDF files.")
                      ELSE /\ tasks'[t].pc = "finally" /\ tasks'[t].outcome = "Completed"
                           /\ Len(msgs') = Len(msgs) + 1
                           /\ SubSeq(msgs', 1, Len(msgs)) = msgs
                           /\ msgs'[Len(msgs')].task = t
                           /\ msgs'[Len(msgs')].sig = "pages_loaded"
                           /\ Range(msgs'[Len(msgs')].payload) = readable
                           /\ Len(msgs'[Len(msgs')].payload) = Cardinality(readable)
                /\ tasks'[t].outcome = "Failed" => Emitted(tasks'[t], "pages_loaded") = 0]_vars

\* C14 witness: a load of the folder in which b.pdf does not open has ended
\* Completed and reported the pages of a.pdf
C14_Witness ==
    \E t \in DOMAIN tasks :
       /\ tasks[t].kind = "load" /\ tasks[t].pc = "done"
       /\ tasks[t].folder_path = InFolder /\ ~files[SourceB].pdf
       /\ tasks[t].outcome = "Completed"
       /\ \E m \in DOMAIN msgs :
             /\ msgs[m].sig = "pages_loaded"
             /\ msgs[m].payload = [n \in 1..PagesInA |-> PDFPageData(SourceA, n - 1)]

(***************************************************************************)
(* Output path claims, checked under SpecPath                              *)
(***************************************************************************)
\* the key of the {key} token p begins with: "{", a non-empty name free of
\* braces, "}"; <<>> when p does not begin with one
TokenKey(p) ==
    IF /\ p # <<>> /\ Head(p) = "{" /\ FirstClose(p) > 2
       /\ "{" \notin Range(SubSeq(p, 2, FirstClose(p) - 1))
    THEN SubSeq(p, 2, FirstClose(p) - 1) ELSE <<>>

\* the keys of all {key} tokens of p
TokenKeys(p) == {TokenKey(SubSeq(p, i, Len(p))) : i \in DOMAIN p} \ {<<>>}

\* p with every {key} token of a key of m replaced by its value, once, and
\* the rest as it is
RECURSIVE Substitute(_, _)
Substitute(p, m) ==
    IF p = <<>> THEN <<>>
    ELSE IF TokenKey(p) # <<>> /\ TokenKey(p) \in DOMAIN m
         THEN m[TokenKey(p)] \o Substitute(SubSeq(p, FirstClose(p) + 1, Len(p)), m)
    ELSE <<Head(p)>> \o Substitute(Tail(p), m)

\* the call of generate_output_path that was made last
PathCall == last_call.op = "generate_output_path"

\* C15: for every pattern whose {key} tokens are all keys of the substitution
\* map, generate_output_path(base_dir) returns base_dir joined with the
\* pattern in which every token is replaced once by its value and nothing
\* else is changed; with pattern "{vendor}/{year}", vendor "Acme", year
\* "2024" and base "/out" the path used for export is "/out/Acme/2024.pdf".
C15_EveryTokenReplacedOnce ==
    LET profile == profiles[current_profile]
        replacements == last_call.marked
    IN (PathCall /\ TokenKeys(profile.output_pattern) \subseteq DOMAIN replacements) =>
          /\ last_call.status = ""
          /\ last_call.ret = PathJoin(last_call.arg,
                                      Substitute(profile.output_pattern, replacements))
          /\ (/\ profile.output_pattern = <<"{", "vendor", "}", "/", "{", "year", "}">>
              /\ replacements[<<"vendor">>] = <<"Acme">>
              /\ replacements[<<"year">>] = <<"2024">>
              /\ last_call.arg = OutFolder)
             => ResolvedPath(profile, output_folder).output_path
                   = <<"/", "out", "/", "Acme", "/", "2024", ".pdf">>

\* C16: for every pattern that references a key absent from the substitution
\* map, generate_output_path returns base_dir/folder_name/file_name with the
\* map's values of those two keys, and raises nothing to its caller.
C16_AbsentKeyFallsBack ==
    LET profile == profiles[current_profile]
        replacements == last_call.marked
    IN (PathCall /\ ~(TokenKeys(profile.output_pattern) \subseteq DOMAIN replacements)) =>
          /\ last_call.status = ""
          /\ last_call.ret = PathJoin(PathJoin(last_call.arg,
                                               replacements[<<"folder", "_", "name">>]),
                                      replacements[<<"file", "_", "name">>])

\* C17: in the substitution map generate_output_path builds, every field
\* contributes the key that is its name lower-cased with spaces replaced by
\* underscores, and under that key the field's trimmed value, or "unknown"
\* when the value is empty or only spaces (a later field of the same key
\* replaces an earlier one); this holds too for a blank field whose key is
\* folder_name or file_name: the default is used only for a key no field
\* has.
C17_SubstitutionMap ==
    PathCall =>
       LET fields == profiles[current_profile].fields
           replacements == last_call.marked
           key(i) == replace_space(lower(fields[i].name))
           value(i) == IF strip(fields[i].value) = <<>> THEN <<"unknown">>
                       ELSE strip(fields[i].value)
           defaults == [k \in {<<"folder", "_", "name">>, <<"file", "_", "name">>} |->
                           IF k = <<"folder", "_", "name">> THEN <<"extracted">>
                           ELSE <<"document">>]
       IN /\ DOMAIN replacements = {key(i) : i \in DOMAIN fields} \cup DOMAIN defaults
          /\ \A i \in DOMAIN fields :
                (\A j \in DOMAIN fields : j > i => key(j) # key(i))
                   => replacements[key(i)] = value(i)
          /\ \A k \in DOMAIN defaults :
                (\A i \in DOMAIN fields : key(i) # k) => replacements[k] = defaults[k]

\* C17 witness: the map was built for a profile whose field "Folder Name" is
\* blank, and folder_name stands for "unknown"
C17_Witness ==
    /\ PathCall
    /\ \E i \in DOMAIN profiles[current_profile].fields :
          /\ profiles[current_profile].fields[i].name = <<"Folder", " ", "Name">>
          /\ profiles[current_profile].fields[i].value = <<" ">>
    /\ last_call.marked[<<"folder", "_", "name">>] = <<"unknown">>
    /\ last_call.marked[<<"file", "_", "name">>] = <<"document">>

(***************************************************************************)
(* Profile store claims, checked under SpecStore                           *)
(***************************************************************************)
\* the step is the load of the store at the start of the application
LoadStep == ui_pc.pc = "start" /\ ui_pc'.pc = "idle"

\* C18: serialization is a lossless round trip: every profile p of the store
\* equals from_dict(to_dict(p)) in name, description, output_pattern,
\* input_folder, output_folder and, field by field in order, in name, value,
\* placeholder, required, field_type and options, so that what a save wrote
\* reads back as the store; and a dictionary short of optional keys loads
\* with the defaults of the IndexProfile and IndexField dataclasses in their
\* place.
C18_RoundTripLossless ==
    [][/\ \A i \in DOMAIN profiles' :
             \A p \in {profiles'[i]} : \A q \in {from_dict(to_dict(p))} :
                /\ q.name = p.name /\ q.description = p.description
                /\ q.output_pattern = p.output_pattern
                /\ q.input_folder = p.input_folder /\ q.output_folder = p.output_folder
                /\ Len(q.fields) = Len(p.fields)
                /\ \A k \in DOMAIN p.fields :
                      /\ q.fields[k].name = p.fields[k].name
                      /\ q.fields[k].value = p.fields[k].value
                      /\ q.fields[k].placeholder = p.fields[k].placeholder
                      /\ q.fields[k].required = p.fields[k].required
                      /\ q.fields[k].field_type = p.fields[k].field_type
                      /\ q.fields[k].options = p.fields[k].options
                /\ q = p
       /\ files' # files => ReadProfiles(files') = profiles'
       /\ (LoadStep /\ files' = files /\ profiles' # <<>>) =>
             LET data == files[ProfilesFile].data
                 Or(d, key, default) == IF key \in DOMAIN d THEN d[key] ELSE default
                 field(f) ==
                     LET plain == IndexField(f.name, <<>>, FALSE)
                     IN [name |-> f.name,
                         value |-> Or(f, "value", plain.value),
                         placeholder |-> Or(f, "placeholder", plain.placeholder),
                         required |-> Or(f, "required", plain.required),
                         field_type |-> Or(f, "field_type", plain.field_type),
                         options |-> Or(f, "options", plain.options)]
                 profile(d) ==
                     LET plain == IndexProfile(d.name, <<>>, DefaultPattern, <<>>, <<>>)
                     IN [name |-> d.name,
                         description |-> Or(d, "description", plain.description),
                         fields |-> [k \in DOMAIN Or(d, "fields", <<>>) |-> field(d.fields[k])],
                         output_pattern |-> Or(d, "output_pattern", plain.output_pattern),
                         input_folder |-> Or(d, "input_folder", plain.input_folder),
                         output_folder |-> Or(d, "output_folder", plain.output_folder)]
             IN profiles' = [i \in DOMAIN data |-> profile(data[i])]]_vars

\* C18 witness: a profile with a description, folders, and a required
\* dropdown field with a value, a placeholder and options, followed by a
\* second field, was saved by an earlier run and is in the store again
C18_Witness ==
    /\ ui_pc.pc = "idle"
    /\ \E i \in DOMAIN profiles :
          /\ profiles[i].name = "rich" /\ profiles[i].description = "For invoices"
          /\ Len(profiles[i].fields) = 2
          /\ profiles[i].fields[1].field_type = "dropdown"
          /\ profiles[i].fields[1].options = <<"acme", "bolt">>
          /\ profiles[i].fields[1].required /\ profiles[i].fields[1].placeholder # ""
          /\ profiles[i].fields[2].name = <<"Year">>
          /\ ProfilesFile \in DOMAIN files /\ files[ProfilesFile].json
          /\ files[ProfilesFile].data = <<to_dict(profiles[i])>>

C20_DiskEqualsMemory ==
    ui_pc.pc = "idle" =>
        /\ ProfilesFile \in DOMAIN files
        /\ files[ProfilesFile].json
        /\ ReadProfiles(files) = profiles

(***************************************************************************)
(* Apply claims, checked under SpecApply                                   *)
(***************************************************************************)
\* the required fields of the shown profile whose value is empty or spaces
BlankRequired ==
    LET fields == profiles[current_profile].fields
    IN SelectSeq(fields, LAMBDA f : f.required /\ \A i \in DOMAIN f.value : f.value[i] = " ")

\* the step is a call of apply_to_selected or batch_assign
ApplyStep == last_call'.tick # last_call.tick

\* C21: a profile is applied to pages only when every required field of it
\* has a value that is not blank after trimming: when a required field is
\* blank, apply_to_selected and batch_assign report one error for each such
\* field, no apply signal reaches the controller, and no page's
\* assigned_profile or selected flag changes; when a call assigns the profile
\* to a page, no required field of the profile is blank.
C21_AppliedOnlyWhenRequiredFieldsFilled ==
    [][ApplyStep =>
         /\ BlankRequired # <<>> =>
               /\ last_call'.op \in {"apply_to_selected", "batch_assign"}
               /\ last_call'.status = "validation_error"
               /\ last_call'.errors =
                      [k \in DOMAIN BlankRequired |->
                          BlankRequired[k].name \o <<" ", "is", " ", "required">>]
               /\ page_items' = page_items
               /\ files' = files
         /\ (\/ last_call'.op = "apply_profile_to_selected"
             \/ \E i \in DOMAIN page_items :
                   \/ page_items'[i].assigned_profile # page_items[i].assigned_profile
                   \/ page_items'[i].selected # page_items[i].selected)
               => BlankRequired = <<>>]_vars

\* C21 witness: apply_to_selected was refused for the required field Vendor
\* holding a space while pages were ticked, and the ticked pages are still
\* ticked and unassigned
C21_Witness ==
    /\ last_call.op = "apply_to_selected"
    /\ last_call.status = "validation_error"
    /\ last_call.errors = <<<<"Vendor", " ", "is", " ", "required">>>>
    /\ profiles[current_profile].fields[1].value = <<" ">>
    /\ get_selected_pages(page_items) # {}
    /\ \A i \in DOMAIN page_items : page_items[i].assigned_profile = None

(***************************************************************************)
(* Further page catalog claims, checked under SpecCatalog                  *)
(***************************************************************************)
\* C22: applying a filter changes only the visibility of page items: for every
\* filter text and every page, the selected flag and assigned_profile of the
\* page are the same before and after apply_filter, so a selected page that
\* becomes hidden stays selected and is still returned by get_selected_pages.
C22_FilterChangesOnlyVisibility ==
    [][(\E i \in DOMAIN page_items : page_items'[i].hidden # page_items[i].hidden) =>
          /\ DOMAIN page_items' = DOMAIN page_items
          /\ \A i \in DOMAIN page_items :
                /\ page_items'[i].selected = page_items[i].selected
                /\ page_items'[i].assigned_profile = page_items[i].assigned_profile
                /\ page_items'[i].source_path = page_items[i].source_path
                /\ page_items'[i].page_number = page_items[i].page_number
                /\ (page_items[i].selected /\ page_items'[i].hidden)
                      => i \in get_selected_pages(page_items')
          /\ get_selected_pages(page_items') = get_selected_pages(page_items)]_vars

\* C22 witness: a filter has hidden a ticked page, which is still ticked and
\* still among the selected pages
C22_Witness ==
    \E i \in DOMAIN page_items :
        /\ page_items[i].hidden
        /\ page_items[i].selected
        /\ i \in get_selected_pages(page_items)
        /\ \E j \in DOMAIN page_items : ~page_items[j].hidden

\* the source files an assign call renamed: the paths that were files before
\* the call and are no files after it
Renamed == DOMAIN files \ DOMAIN files'

\* the name of the file at path p with the done- prefix
DonePath(p) == PathParent(p) \o <<"/", "done-">> \o PathName(p)

\* C24: within one assign_profile_to_selected call the source-completion side
\* effect (the rename to the done- prefix) is performed at most once per
\* source file, never for a source that still has a page without an assigned
\* profile, and a file whose name starts with done- is never renamed again.
C24_RenamedOnceWhenComplete ==
    [][AssignStep =>
         /\ Cardinality(DOMAIN files') = Cardinality(DOMAIN files)
         /\ \A p \in Renamed :
               /\ DonePath(p) \in DOMAIN files' \ DOMAIN files
               /\ files'[DonePath(p)] = files[p]
               /\ DonePath(DonePath(p)) \notin DOMAIN files'
               /\ Head(PathName(p)) # "done-"
               /\ \E i \in DOMAIN page_items :
                     page_items[i].source_path = p /\ page_items[i].selected
               /\ \A i \in DOMAIN page_items :
                     page_items[i].source_path = p => page_items'[i].assigned_profile # None
         /\ \A q \in DOMAIN files' \ DOMAIN files : \E p \in Renamed : q = DonePath(p)
         /\ \A p \in DOMAIN files \cap DOMAIN files' : files'[p] = files[p]]_vars

\* C24 witness: a call came to a source whose file already had the done-
\* prefix and left it under that name, while another source with a page
\* without a profile kept its name
C24_Witness ==
    /\ last_call.op = "apply_profile_to_selected"
    /\ last_call.status = "assigned"
    /\ \E m \in Range(last_call.marked) :
          /\ Head(PathName(m)) = "done-"
          /\ m \in DOMAIN files
          /\ DonePath(m) \notin DOMAIN files
    /\ \E i \in DOMAIN page_items :
          /\ page_items[i].assigned_profile = None
          /\ page_items[i].source_path \in DOMAIN files
          /\ Head(PathName(page_items[i].source_path)) # "done-"

\* C25: the done- rename is best-effort: when the filesystem denies it the
\* error is swallowed, the assignment call still completes and returns its
\* count, and no page record's source_path changes; when it succeeds every
\* page record of that source has its source_path updated to the new name; so
\* after either outcome every page record's source_path names the file as it
\* exists on disk.
C25_RenameIsBestEffort ==
    [][AssignStep =>
         /\ last_call'.ret = Cardinality(get_selected_pages(page_items))
         /\ \A i \in get_selected_pages(page_items) :
               page_items'[i].assigned_profile = last_call'.arg
         /\ \A i \in DOMAIN page_items :
               /\ page_items'[i].source_path =
                      IF page_items[i].source_path \in Renamed
                      THEN DonePath(page_items[i].source_path)
                      ELSE page_items[i].source_path
               /\ page_items[i].source_path \in DOMAIN files
                      => page_items'[i].source_path \in DOMAIN files'
               /\ page_items[i].source_path \in DOMAIN files
                      => files'[page_items'[i].source_path] = files[page_items[i].source_path]]_vars

\* C25 witness: in one call the rename of a.pdf was denied and the rename of
\* b.pdf was done: the pages of a.pdf are assigned and still name a.pdf, which
\* is on disk, and the page of b.pdf names done-b.pdf, which is on disk
C25_Witness ==
    /\ last_call.op = "apply_profile_to_selected"
    /\ last_call.status = "assigned"
    /\ SourceA \in Range(last_call.marked) /\ SourceB \in Range(last_call.marked)
    /\ SourceA \in DOMAIN files /\ DonePath(SourceA) \notin DOMAIN files
    /\ SourceB \notin DOMAIN files /\ DonePath(SourceB) \in DOMAIN files
    /\ \E i \in DOMAIN page_items : page_items[i].source_path = DonePath(SourceB)
    /\ \A i \in DOMAIN page_items :
          /\ page_items[i].assigned_profile # None
          /\ page_items[i].source_path \in {SourceA, DonePath(SourceB)}

(***************************************************************************)
(* Shutdown claim, checked under SpecClose                                 *)
(***************************************************************************)
\* C23: shutdown tolerates hung workers: closeEvent asks each running worker
\* to stop, waits a bounded time, terminates a worker that has not stopped
\* and accepts the close; when it returns, every load or export worker that
\* was alive at shutdown has stopped or been terminated.  No task is started
\* while closeEvent runs, so this is: no task is running once the close is
\* accepted.
C23_NoWorkerOutlivesClose ==
    ui_pc.pc = "closed" => \A t \in DOMAIN tasks : ~isRunning(tasks[t])

(***************************************************************************)
(* Further export job building claims, checked under SpecBuild             *)
(***************************************************************************)
\* the path the profile of the first page of a job resolves to
ResolvedOf(job) ==
    LET first == CHOOSE i \in DOMAIN page_items :
                    /\ page_items[i].source_path = job.pages_group[1].source_path
                    /\ page_items[i].page_number = job.pages_group[1].page_number
    IN ResolvedPath(profiles[get_profile(profiles, page_items[first].assigned_profile)],
                    output_folder).output_path

\* path, which ends in .pdf, with _k before the suffix
Numbered(path, k) == SubSeq(path, 1, Len(path) - 1) \o <<"_", ToString(k), ".pdf">>

\* C26: for each group the job's output_path does not exist on the filesystem
\* when the job is built: it is the resolved path itself when that path is
\* free, otherwise stem_k.suffix with the smallest integer k >= 1 for which
\* that name is free; ensure_unique_filename ends for every finite set of
\* existing files and never returns an existing path.
C26_OutputPathIsFree ==
    [][(ExportStep /\ last_call'.status = "ok") =>
          \A j \in DOMAIN last_call'.jobs :
             \E resolved \in {ResolvedOf(last_call'.jobs[j])} :
                LET out == last_call'.jobs[j].output_path
                    taken(q) == q \in DOMAIN files \/ q \in dirs
                IN /\ ~taken(out)
                   /\ IF ~taken(resolved) THEN out = resolved
                      ELSE \E k \in 1..(Cardinality(DOMAIN files) + Cardinality(dirs) + 1) :
                              /\ out = Numbered(resolved, k)
                              /\ \A smaller \in 1..(k - 1) : taken(Numbered(resolved, smaller))]_vars

\* C26 witness: with acme.pdf and acme_1.pdf in the output folder, a job was
\* built for acme_2.pdf
C26_Witness ==
    /\ last_call.op = "export_all_assigned" /\ last_call.status = "ok"
    /\ OutFolder \o <<"/", "acme", ".pdf">> \in DOMAIN files
    /\ OutFolder \o <<"/", "acme", "_", "1", ".pdf">> \in DOMAIN files
    /\ profiles[1].fields[1].value = <<"acme">>
    /\ \E j \in DOMAIN last_call.jobs :
          last_call.jobs[j].output_path = OutFolder \o <<"/", "acme", "_", "2", ".pdf">>

\* C27: within one export run no two ExportJobs have the same output_path,
\* for every set of groups and every set of files already on disk, also when
\* one group's de-duplicated name, such as acme_1.pdf, equals another group's
\* resolved path; so no job of a run overwrites the output of another job of
\* the same run.
C27_JobsHaveDistinctOutputPaths ==
    \A j1 \in DOMAIN last_call.jobs, j2 \in DOMAIN last_call.jobs :
        j1 # j2 => last_call.jobs[j1].output_path # last_call.jobs[j2].output_path

\* C28: a page's export destination is determined only by the name of its
\* assigned profile and that profile's state at export time: all pages that
\* carry the same assigned profile name are placed in the same ExportJob, and
\* the job's path is built from the output folder and the field value the
\* profile has when export_all_assigned runs, whatever the value was when the
\* profile was applied; so editing a field value after assigning changes the
\* destination of the pages assigned earlier.
C28_DestinationFromProfileAtExport ==
    [][(ExportStep /\ last_call'.status = "ok") =>
          LET jobs == last_call'.jobs
              Known == {i \in DOMAIN page_items :
                           \E q \in Range(profiles) : q.name = page_items[i].assigned_profile}
              Carries(j, i) == \E k \in DOMAIN jobs[j].pages_group :
                                  /\ jobs[j].pages_group[k].source_path = page_items[i].source_path
                                  /\ jobs[j].pages_group[k].page_number = page_items[i].page_number
              Profile(i) == profiles[CHOOSE n \in DOMAIN profiles :
                                        /\ profiles[n].name = page_items[i].assigned_profile
                                        /\ \A m \in 1..(n - 1) :
                                              profiles[m].name # page_items[i].assigned_profile]
              Destination(q) ==
                  (IF q.output_folder # <<>> THEN q.output_folder ELSE output_folder)
                      \o <<"/">> \o q.fields[1].value \o <<".pdf">>
          IN /\ \A i1 \in Known, i2 \in Known :
                   page_items[i1].assigned_profile = page_items[i2].assigned_profile
                       => \E j \in DOMAIN jobs : Carries(j, i1) /\ Carries(j, i2)
             /\ \A i \in Known : \A j \in DOMAIN jobs :
                   Carries(j, i) =>
                      \E resolved \in {Destination(Profile(i))} :
                         \/ jobs[j].output_path = resolved
                         \/ /\ resolved \in DOMAIN files
                            /\ \E k \in 1..(Cardinality(DOMAIN files) + 1) :
                                  jobs[j].output_path = Numbered(resolved, k)]_vars

\* C28 witness: the pages of a.pdf carry "inv", whose Vendor was "acme" when
\* they were given it; Vendor was edited to "bolt" afterwards, and the job
\* built for both pages goes to bolt.pdf
C28_Witness ==
    /\ last_call.op = "export_all_assigned" /\ last_call.status = "ok"
    /\ profiles # <<>> /\ profiles[1].name = "inv"
    /\ profiles[1].fields[1].value = <<"bolt">>
    /\ \E j \in DOMAIN last_call.jobs :
          /\ last_call.jobs[j].output_path = OutFolder \o <<"/", "bolt", ".pdf">>
          /\ Len(last_call.jobs[j].pages_group) >= 2
          /\ \A k \in DOMAIN last_call.jobs[j].pages_group :
                last_call.jobs[j].pages_group[k].source_path = SourceA
    /\ \A i \in DOMAIN page_items :
          page_items[i].source_path = SourceA => page_items[i].assigned_profile = "inv"

(***************************************************************************)
(* Superseded task claim, checked under Spec                               *)
(***************************************************************************)
\* C29: messages of a superseded task have no effect on the controller once a
\* newer task of the same kind has been started: a pages_loaded message of an
\* older load never populates the catalog after a newer load was requested,
\* and a finished message of an older load or export task never clears the
\* controller's reference (loader, exporter) to the newer running task; a
\* message clears the reference only when it is the finish of the task the
\* reference refers to.
C29_SupersededMessagesHaveNoEffect ==
    [][(msgs # <<>> /\ msgs' = Tail(msgs)) =>
          LET sender == Head(msgs).task
              superseded == \E t \in DOMAIN tasks :
                               t > sender /\ tasks[t].kind = tasks[sender].kind
          IN /\ (superseded /\ Head(msgs).sig = "pages_loaded") => page_items' = page_items
             /\ loader' # loader => sender = loader /\ Head(msgs).sig = "finished"
             /\ exporter' # exporter => sender = exporter /\ Head(msgs).sig = "finished"]_vars

(***************************************************************************)
(* Output path containment claim, checked under SpecPath                   *)
(***************************************************************************)
\* C30: for every profile, every combination of field values and every
\* pattern, the path generate_output_path(base_dir) returns lies inside
\* base_dir: it is base_dir itself or base_dir followed by a separator and
\* segments, none of which is "..", so no field value or pattern, such as one
\* that starts with a path separator, makes the output path leave the chosen
\* output folder.
C30_OutputPathInsideBaseDir ==
    (last_call.op = "generate_output_path" /\ last_call.status = "") =>
        LET base == last_call.arg
            out == last_call.ret
        IN /\ \/ out = base
              \/ /\ Len(out) > Len(base) + 1
                 /\ SubSeq(out, 1, Len(base)) = base
                 /\ out[Len(base) + 1] = "/"
           /\ \A i \in DOMAIN out : out[i] # ".."

==========================================================================
